---- MODULE Spec2Model ----
(***************************************************************************)
(* Node lifecycle and workload tracking of ocs-ci:                         *)
(*   ocs_ci/ocs/node.py      wait_for_nodes_status, unschedule_nodes,      *)
(*                           drain_nodes, remove_nodes,                    *)
(*                           add_new_node_and_label_upi                    *)
(*   ocs_ci/ocs/perftests.py PASTest.wait_for_wl_to_finish                 *)
(* The cluster (node listing, readiness, schedulability, pod listing) is   *)
(* the environment; it changes between the steps of an operation.          *)
(***************************************************************************)
EXTENDS Integers, Sequences, FiniteSets, TLC

\* ------------------------------------------------------------------ bounds
NumNodes == 2
TinyTimeout == 2
ShortTimeout == 9
MaxPods == 2
MaxSeen == 5
MaxDelta == 2
MaxBulk == 3
MaxHealthLen == 3
MaxReplicas == 2
MaxTextLen == 3
MaxTests == 3
MaxAlerts == 2
MaxSleep == 11
MaxLinks == 3

\* ------------------------------------------------------- program constants
DEFAULT_TIMEOUT == 180
BOOTSTRAP_TIMEOUT == 60
SAMPLE_SLEEP == 3
DEPLOY_TIMEOUT == 300
DEPLOY_SLEEP == 20
MAX_RESTARTS == 3
UPI_TIMEOUT == 600
UPI_SLEEP == 6

NODE_READY == "Ready"
NODE_NOT_READY == "NotReady"
NODE_READY_SCHEDULING_DISABLED == "Ready,SchedulingDisabled"
NODE_NOT_READY_SCHEDULING_DISABLED == "NotReady,SchedulingDisabled"

Nodes == 1..NumNodes

VARIABLES
    \* the cluster
    listed,              \* listed[n]: node n is in the 'get node' listing
    ready,               \* ready[n]: kubelet condition of node n
    unsched,             \* unsched[n]: spec.unschedulable of node n
    \* the operation the caller started
    op,
    \* wait_for_nodes_status frame
    wpc,                 \* "idle", "bootstrap", "poll", "sleep", "returned", "raised"
    node_names,          \* list of names (<<>> models None / empty)
    status,              \* the target status
    timeout,
    nodes_not_in_state,  \* the pending list
    elapsed,             \* clock of the running TimeoutSampler
    werr,                \* exception leaving wait_for_nodes_status
    reported,            \* node names carried by ResourceWrongStatusException
    described,           \* nodes whose describe() dump the exception carries
    timedOut,            \* the sampler raised TimeoutExpiredError in this call
    \* history of the current wait call
    givenNames,          \* TRUE iff the caller passed node names
    bootSnapshot,        \* the listing that resolved the names
    observed,            \* names removed after being seen in the target status
    emptySeen,           \* an empty listing was sampled while resolving names
    strayRead,           \* a poll read the status of a node that was not pending
    \* remove_nodes frame
    rpc,                 \* "idle", "cordon", "unschedule", "drain", "capture", "delete", "done", "raised"
    batch,               \* remove_nodes' node_names
    rerr,                \* exception leaving remove_nodes
    drained,             \* nodes the drain command evicted
    drainTimedOut,       \* the drain command hit its timeout
    cephStatus,          \* a 'ceph status' snapshot was captured
    deleted,             \* nodes the delete command removed
    phaseErr,            \* the error of the phase that failed
    trace,               \* commands issued and phase results, in order
    \* add_new_node_and_label_upi frame
    upc,                 \* "idle", "poll", "sleep", "snapshot", "wait", "waiting", "label", "returned", "raised"
    initial_nodes,       \* the worker names read before the request
    num_nodes,
    mark_for_ocs_label,
    up_elapsed,          \* clock of the TimeoutSampler over get_worker_nodes
    new_spun_nodes,      \* set(nodes_after_exp) - set(initial_nodes)
    selinux,             \* nodes given to set_selinux_permissions
    labeled,             \* nodes that received OPERATOR_NODE_LABEL
    uerr,                \* exception leaving add_new_node_and_label_upi
    requests,            \* num_nodes of every create_and_attach_nodes_to_cluster call
    \* PASTest
    wlpc,                \* "setup", "deploying", "started", "loop", "returned", "raised"
    client_pod,          \* self.client_pod ("None" after setup)
    wl_timeout,          \* wait_for_wl_to_finish's timeout
    wl_sleep,            \* ... and sleep
    Finished,
    restarts,
    total_time,
    fname,               \* the runner pod selected in the last poll cycle
    pod_status,          \* ... and its phase
    wlerr,               \* exception leaving the PASTest method
    test_logs,           \* the pod whose logs were fetched
    start_elapsed,       \* clock of deploy_and_wait_for_wl_to_start's sampler
    \* history of the current wait_for_wl_to_finish call
    startPod,            \* client_pod when the call began
    seen,                \* the runner pods selected in the first MaxSeen cycles
    counts,              \* restarts after each of those cycles
    phasesSeen,          \* the phases observed so far while they follow PhaseRun
    method,              \* the PASTest method entered last: "none", "deploy", "wait"
    probes,              \* 'get pod' listings made by wait_for_wl_to_finish
    sleeps,              \* time.sleep(sleep) calls made by wait_for_wl_to_finish
    got,                 \* the phase carried by ResourceWrongStatusException
    pickedFirst,         \* every sample of the start wait was handled by its first matching name
    \* node_network_failure
    npc,                 \* position: "idle", "loop", "waiting", "returned", "raised"
    net_names,           \* node_names after the isinstance normalisation
    net_wait,            \* the wait argument
    attempted,           \* the nodes exec_oc_debug_cmd was called on, in call order
    swallowed,           \* the nodes whose call raised TimeoutExpired
    nerr,                \* the exception that left node_network_failure
    \* test_bulk_pvc_creation_deletion_measurement_performance
    ppc,                 \* position of the test body: "idle", "submit", "join", "measure", "passed", "raised"
    bulk_size,           \* the bulk_size parameter
    submitted,           \* executor.submit calls made; task i is the i-th of them
    started,             \* tasks taken from the executor's work queue (it is FIFO)
    finished,            \* tasks whose callable ended
    raisedTasks,         \* tasks whose callable ended with an exception
    threads,             \* worker threads the executor has spawned
    peak,                \* the most tasks that were executing at one time
    perr,                \* the exception that left the test
    \* ceph_health_check under its retry decorator
    hpc,                 \* position of the decorated call: "idle", "call", "sleep", "returned", "raised"
    mtries,              \* tries left
    mdelay,              \* the delay of the next sleep
    calls,               \* invocations of the undecorated function
    hsleeps,             \* sleeps made between invocations
    delays,              \* the delays slept
    lastHealth,          \* output of the last 'ceph health' that ran, NoHealth if it did not
    herr,                \* the last exception of the function
    \* the cluster fixture and test_deployment
    fpc,                 \* position of the session: "idle", "setup", "deploying", "ready", "tested", "failed", "finished"
    deploy,              \* the deploy option as the configuration holds it
    teardown,            \* the teardown option as the configuration holds it
    cluster_up,          \* the cluster at cluster_path is running and reachable
    seenRunning,         \* what the fixture's is_cluster_running returned: "unread", "yes", "no"
    finalizers,          \* the finalizers registered with the session
    steps,               \* the deployment stages run, in order
    asserted,            \* test_deployment made its assertion
    ferr,                \* the error that left the fixture
    terr,                \* the error that left test_deployment
    tderr,               \* the error that left the finalizer
    \* add_new_node_and_label_it
    ipc,                 \* position of the call: "idle", "waiting", "ready", "returned", "raised"
    it_initial,          \* initial_nodes
    replica_read,        \* machineset_replica_count
    replica_set,         \* the count given to machine.add_node, 0 before the call
    it_after,            \* nodes_after_new_spun_node
    it_labeled,          \* the nodes add_label was applied to
    it_returned,         \* the returned node name, 0 when nothing was returned
    ierr,                \* the exception that left the function
    \* CloudIPIOCPDeployment.deploy
    cpc,                 \* position of the call: "idle", "install", "except", "gather", "reraise", "test", "returned", "raised"
    log_cli_level,       \* the log level given to the installer
    errText,             \* str(e) of the CommandFailed of the installer
    gathered,            \* gather_bootstrap was invoked
    logged,              \* the exception of gather_bootstrap given to logger.error
    tested,              \* test_cluster was invoked
    cerr,                \* the exception that left deploy
    \* VSPHEREUPI.OCPDeployment.deploy
    vpc,                 \* position of the call: "idle", "running", "returned", "raised"
    v_level,             \* log_cli_level
    vsteps,              \* the steps started, in order
    vfailed,             \* the steps that did not succeed
    bootstrapNode,       \* the bootstrap VM: "absent", "present", "removed"
    cwd,                 \* the working directory: "previous_dir" or "terraform_data_dir"
    verr,                \* the exception that left deploy
    dpc,                 \* position of destroy_cluster: "idle", "running", "returned", "raised"
    mainFiles,           \* which of VSPHERE_MAIN.backup and VSPHERE_MAIN.json exist
    dsteps,              \* the steps of destroy_cluster started, in order
    derr,                \* the exception that left destroy_cluster
    \* run() of run.py
    runpc,               \* position of the call: "idle", "launch", "loop", "finish",
                         \* "returned", "raised"
    has_tests,           \* the suite file has a 'tests' key
    suite_tests,         \* the tests of the suite, in suite order
    post_to_report_portal, \* args['--report-portal']
    launch,              \* the report-portal launch: "none", "started", "finished"
    executed,            \* the tests whose execute() was called, in call order
    tcs,                 \* the results list
    run_rc,              \* the value run() returned, -1 before
    run_err,             \* the exception that left run()
    \* test_ceph_manager_stopped
    apc,                 \* position of the test: "idle", "loop", "sleep", "fetch",
                         \* "final", "passed", "failed"
    alerts,              \* the variable alerts
    time_sleep,          \* the variable time_sleep
    time_sleep0,         \* time_sleep as computed at lines 51-53
    alerts_response,     \* the last response of prometheus.get('alerts')
    evaluated,           \* the list the last in-loop comprehension iterated over
    target_alerts,       \* the variable target_alerts
    iterations,          \* iterations of the while loop started
    aerr,                \* the exception that ended the test
    \* PASTest results file
    respc,               \* position of the results bookkeeping: "idle", "written",
                         \* "returned", "raised"
    file_exists,         \* all_results.txt exists
    file_text,           \* the content of all_results.txt
    links,               \* the res_link of every write_result_to_file call, in call order
    written,             \* the res_link of the calls whose write did not fail
    number_of_tests,     \* self.number_of_tests
    es_link,             \* self.es_link
    res_err              \* the exception that left check_tests_results

clusterVars == <<listed, ready, unsched>>
waitVars == <<wpc, node_names, status, timeout, nodes_not_in_state, elapsed,
              werr, reported, described, timedOut, givenNames, bootSnapshot, observed,
              emptySeen, strayRead>>
removeVars == <<rpc, batch, rerr, drained, drainTimedOut, cephStatus, deleted,
                phaseErr, trace>>
wlVars == <<wlpc, client_pod, wl_timeout, wl_sleep, Finished, restarts,
            total_time, fname, pod_status, wlerr, test_logs, start_elapsed,
            startPod, seen, counts, phasesSeen, method, probes, sleeps, got,
            pickedFirst>>
upiVars == <<upc, initial_nodes, num_nodes, mark_for_ocs_label, up_elapsed,
             new_spun_nodes, selinux, labeled, uerr, requests>>
netVars == <<npc, net_names, net_wait, attempted, swallowed, nerr>>
nodeVars == <<clusterVars, op, waitVars, removeVars, upiVars, netVars>>
poolVars == <<ppc, bulk_size, submitted, started, finished, raisedTasks, threads,
              peak, perr>>
healthVars == <<hpc, mtries, mdelay, calls, hsleeps, delays, lastHealth, herr>>
fixtureVars == <<fpc, deploy, teardown, cluster_up, seenRunning, finalizers, steps,
                 asserted, ferr, terr, tderr>>
itVars == <<ipc, it_initial, replica_read, replica_set, it_after, it_labeled,
            it_returned, ierr>>
cloudVars == <<cpc, log_cli_level, errText, gathered, logged, tested, cerr>>
vmwVars == <<vpc, v_level, vsteps, vfailed, bootstrapNode, cwd, verr, dpc, mainFiles,
             dsteps, derr>>
runVars == <<runpc, has_tests, suite_tests, post_to_report_portal, launch, executed,
            tcs, run_rc, run_err>>
alertVars == <<apc, alerts, time_sleep, time_sleep0, alerts_response, evaluated,
              target_alerts, iterations, aerr>>
resVars == <<respc, file_exists, file_text, links, written, number_of_tests, es_link,
            res_err>>
extraVars == <<itVars, cloudVars, vmwVars, runVars, alertVars, resVars>>
isoVars == <<poolVars, healthVars, fixtureVars, extraVars>>
vars == <<nodeVars, wlVars, isoVars>>
\* what VSPHEREUPI.OCPDeployment.deploy leaves alone
vmwRest == <<nodeVars, wlVars, poolVars, healthVars, fixtureVars, itVars, cloudVars,
             runVars, alertVars, resVars>>
\* what CloudIPIOCPDeployment.deploy leaves alone
cloudRest == <<nodeVars, wlVars, poolVars, healthVars, fixtureVars, itVars, vmwVars,
               runVars, alertVars, resVars>>
\* what the results bookkeeping of PASTest leaves alone
resRest == <<nodeVars, wlVars, poolVars, healthVars, fixtureVars, itVars, cloudVars,
             vmwVars, runVars, alertVars>>
\* what test_ceph_manager_stopped leaves alone
alertRest == <<nodeVars, wlVars, poolVars, healthVars, fixtureVars, itVars, cloudVars,
               vmwVars, runVars, resVars>>
\* what run() leaves alone
runRest == <<nodeVars, wlVars, poolVars, healthVars, fixtureVars, itVars, cloudVars,
             vmwVars, alertVars, resVars>>
\* what add_new_node_and_label_it leaves alone besides op
itRest == <<clusterVars, waitVars, removeVars, upiVars, netVars, wlVars, poolVars,
            healthVars, fixtureVars, cloudVars, vmwVars, runVars, alertVars, resVars>>

\* ----------------------------------------------------------------- helpers
SeqToSet(s) == {s[i] : i \in DOMAIN s}

RECURSIVE RemoveFirst(_, _)
\* list.remove(x): drops the first occurrence
RemoveFirst(s, x) ==
    IF s = <<>> THEN <<>>
    ELSE IF Head(s) = x THEN Tail(s)
    ELSE <<Head(s)>> \o RemoveFirst(Tail(s), x)

RECURSIVE Ascending(_, _)
\* the members of S in listing order, from node i on
Ascending(S, i) ==
    IF i > NumNodes THEN <<>>
    ELSE (IF i \in S THEN <<i>> ELSE <<>>) \o Ascending(S, i + 1)

NameLists == {Ascending(S, 1) : S \in SUBSET Nodes}

\* ------------------------------------------------------------------ cluster
\* node.ocp.get_resource_status(node.name): the STATUS column
get_resource_status(n) ==
    IF ready[n]
    THEN (IF unsched[n] THEN NODE_READY_SCHEDULING_DISABLED ELSE NODE_READY)
    ELSE (IF unsched[n] THEN NODE_NOT_READY_SCHEDULING_DISABLED ELSE NODE_NOT_READY)

\* OCP(kind='node').get()['items'], as names in listing order
node_dicts == Ascending({n \in Nodes : listed[n]}, 1)

\* variant: the names are ignored and every listed node is returned
get_node_objsAll(names) == node_dicts

\* get_node_objs without its assertion: all nodes when names is empty/None,
\* otherwise the listed nodes whose name is in names
get_node_objs(names) ==
    IF names = <<>> THEN node_dicts
    ELSE SelectSeq(node_dicts, LAMBDA n : n \in SeqToSet(names))

\* 'assert nodes' of get_node_objs fails
AssertionFails(names) == get_node_objs(names) = <<>>

\* ---------------------------------------------------------- TimeoutSampler
\* variant: the deadline is noticed one interval late
SamplerExpiredLate(t, limit) == t >= limit + SAMPLE_SLEEP

\* after sleeping one interval the sampler raises once the deadline is reached
SamplerExpired(t, limit) == t >= limit

\* ---------------------------------------------------- wait_for_nodes_status
\* variant: the pending list is rebuilt from all requested names on every cycle
PollBodyRebuild(sample, pending, st) ==
    SelectSeq(node_names, LAMBDA n : get_resource_status(n) # st)

\* variant: every sampled node leaves the pending list, whatever its status
PollBodyAnyStatus(sample, pending, st) ==
    SelectSeq(pending, LAMBDA n : n \notin SeqToSet(sample))

RECURSIVE PollBody(_, _, _)
\* for node in sample: if its status is the target, pending.remove(name)
PollBody(sample, pending, st) ==
    IF sample = <<>> THEN pending
    ELSE PollBody(Tail(sample),
                  IF get_resource_status(Head(sample)) = st
                  THEN RemoveFirst(pending, Head(sample))
                  ELSE pending,
                  st)

\* variant: the names are resolved to every known node, not to the sample
ResolveNamesKnown(sample) == Ascending(Nodes, 1)

\* node_names = [node.name for node in sample]
ResolveNames(sample) == sample

\* the names the except-handler puts into ResourceWrongStatusException
HandlerNames(names, pending) == names

\* the frame of a fresh call wait_for_nodes_status(names, st, t)
EnterWait(names, st, t) ==
    /\ node_names' = names
    /\ status' = st
    /\ timeout' = t
    /\ givenNames' = (names # <<>>)
    /\ nodes_not_in_state' = names
    /\ elapsed' = 0
    /\ wpc' = IF names = <<>> THEN "bootstrap" ELSE "poll"
    /\ werr' = "none"
    /\ reported' = <<>>
    /\ described' = <<>>
    /\ timedOut' = FALSE
    /\ bootSnapshot' = {}
    /\ observed' = {}
    /\ emptySeen' = FALSE
    /\ strayRead' = FALSE

\* except TimeoutExpiredError: raise ResourceWrongStatusException(node_names,
\* [n.describe() for n in get_node_objs(node_names)])
TimeoutHandler(names, pending) ==
    /\ timedOut' = TRUE
    /\ IF AssertionFails(names)
       THEN /\ werr' = "AssertionError"
            /\ reported' = <<>>
            /\ described' = <<>>
       ELSE /\ werr' = "ResourceWrongStatusException"
            /\ reported' = HandlerNames(names, pending)
            /\ described' = get_node_objs(names)

\* one probe of the first sampler: TimeoutSampler(60, 3, get_node_objs)
WaitBootstrap ==
    /\ UNCHANGED <<wlVars, upiVars, netVars, isoVars>>
    /\ wpc = "bootstrap"
    /\ UNCHANGED <<clusterVars, op, removeVars, status, timeout, givenNames, observed>>
    /\ emptySeen' = (emptySeen \/ node_dicts = <<>>)
    /\ UNCHANGED strayRead
    /\ IF AssertionFails(<<>>)
       THEN \* the probe raises; the sampler does not retry it
            /\ wpc' = "raised"
            /\ werr' = "AssertionError"
            /\ UNCHANGED <<node_names, nodes_not_in_state, elapsed, reported,
                           described, timedOut, bootSnapshot>>
       ELSE IF get_node_objs(<<>>) # <<>>
       THEN \* node_names = [node.name for node in sample]; break
            /\ node_names' = ResolveNames(get_node_objs(<<>>))
            /\ nodes_not_in_state' = ResolveNames(get_node_objs(<<>>))
            /\ bootSnapshot' = {n \in Nodes : listed[n]}
            /\ elapsed' = 0
            /\ wpc' = "poll"
            /\ UNCHANGED <<werr, reported, described, timedOut>>
       ELSE \* a falsy sample: sleep, then probe again or time out
            /\ elapsed' = elapsed + SAMPLE_SLEEP
            /\ UNCHANGED <<node_names, nodes_not_in_state, bootSnapshot>>
            /\ IF SamplerExpired(elapsed + SAMPLE_SLEEP, BOOTSTRAP_TIMEOUT)
               THEN wpc' = "raised" /\ TimeoutHandler(node_names, nodes_not_in_state)
               ELSE wpc' = "bootstrap" /\ UNCHANGED <<werr, reported, described, timedOut>>

\* one probe of the second sampler and the loop body on its sample
WaitPoll ==
    /\ UNCHANGED <<wlVars, upiVars, netVars, isoVars>>
    /\ wpc = "poll"
    /\ UNCHANGED <<clusterVars, op, removeVars, node_names, status, timeout,
                   elapsed, givenNames, bootSnapshot, emptySeen, reported, described,
                   timedOut>>
    /\ IF AssertionFails(nodes_not_in_state)
       THEN /\ wpc' = "raised"
            /\ werr' = "AssertionError"
            /\ UNCHANGED <<nodes_not_in_state, observed, strayRead>>
       ELSE LET sample == get_node_objs(nodes_not_in_state)
                pending == PollBody(sample, nodes_not_in_state, status)
            IN /\ nodes_not_in_state' = pending
               /\ strayRead' = (strayRead \/
                     ~(SeqToSet(sample) \subseteq SeqToSet(nodes_not_in_state)))
               /\ observed' = observed \cup
                    (SeqToSet(nodes_not_in_state) \ SeqToSet(pending))
               /\ wpc' = IF pending = <<>> THEN "returned" ELSE "sleep"
               /\ UNCHANGED werr

\* the sampler sleeps one interval, then probes again or raises TimeoutExpiredError
WaitSleep ==
    /\ UNCHANGED <<wlVars, upiVars, netVars, isoVars>>
    /\ wpc = "sleep"
    /\ UNCHANGED <<clusterVars, op, removeVars, node_names, status, timeout,
                   nodes_not_in_state, givenNames, bootSnapshot, observed, emptySeen,
                   strayRead>>
    /\ elapsed' = elapsed + SAMPLE_SLEEP
    /\ IF SamplerExpired(elapsed + SAMPLE_SLEEP, timeout)
       THEN wpc' = "raised" /\ TimeoutHandler(node_names, nodes_not_in_state)
       ELSE wpc' = "poll" /\ UNCHANGED <<werr, reported, described, timedOut>>

\* a direct call of wait_for_nodes_status
CallWait ==
    /\ UNCHANGED <<wlVars, upiVars, netVars, isoVars>>
    /\ op = "none"
    /\ \E names \in NameLists,
          st \in {NODE_READY, NODE_NOT_READY},
          t \in {TinyTimeout, ShortTimeout} :
          EnterWait(names, st, t)
    /\ op' = "wait"
    /\ UNCHANGED <<clusterVars, removeVars>>

\* ------------------------------------------------------------- remove_nodes
Prefix(s, k) == SubSeq(s, 1, k)

\* variant: a failing phase uncordons the batch again
OnFailureRollback(u) == [n \in Nodes |-> u[n] /\ n \notin SeqToSet(batch)]

\* remove_nodes has no except/finally: a failing phase leaves the nodes'
\* schedulability as it is
OnFailure(u) == u

\* variant: the delete step runs whether or not the drain command returned
AfterDrainAlways(completed) == "delete"

\* where remove_nodes goes after drain_nodes: on to delete only when the
\* drain command returned
AfterDrain(completed) == IF completed THEN "delete" ELSE "raised"

\* variant: the timeout is re-raised without the health capture
OnDrainTimeoutSkip == "raised"

\* where drain_nodes goes when the drain command raised TimeoutExpired
OnDrainTimeout == "capture"

\* drain_nodes' except TimeoutExpired block: the exception that leaves it
\* (the bare 'raise' is reached only when the capture itself raised nothing)
CaptureOutcome(captured) == IF captured THEN "TimeoutExpired" ELSE "CommandFailed"

\* remove_nodes(nodes)
CallRemove ==
    /\ UNCHANGED <<wlVars, upiVars, netVars, isoVars>>
    /\ op = "none"
    /\ op' = "remove"
    /\ \E names \in NameLists \ {<<>>} : batch' = names
    /\ rpc' = "cordon"
    /\ UNCHANGED <<clusterVars, waitVars, rerr, drained, drainTimedOut,
                   cephStatus, deleted, phaseErr, trace>>

\* unschedule_nodes: 'oc adm cordon <names>', then wait_for_nodes_status is entered
Cordon ==
    /\ UNCHANGED <<wlVars, upiVars, netVars, isoVars>>
    /\ rpc = "cordon"
    /\ UNCHANGED <<listed, ready, op, batch, drained, drainTimedOut, cephStatus, deleted>>
    /\ \E k \in 0..Len(batch) :
          /\ \A i \in 1..k : listed[batch[i]]
          /\ IF k = Len(batch)
             THEN /\ unsched' = [n \in Nodes |-> unsched[n] \/ n \in SeqToSet(batch)]
                  /\ trace' = trace \o <<"cordon", "cordon:ok">>
                  /\ rpc' = "unschedule"
                  /\ EnterWait(batch, NODE_READY_SCHEDULING_DISABLED, DEFAULT_TIMEOUT)
                  /\ UNCHANGED <<rerr, phaseErr>>
             ELSE /\ unsched' = OnFailure([n \in Nodes |->
                                    unsched[n] \/ n \in SeqToSet(Prefix(batch, k))])
                  /\ trace' = trace \o <<"cordon">>
                  /\ rpc' = "raised"
                  /\ rerr' = "CommandFailed"
                  /\ phaseErr' = "CommandFailed"
                  /\ UNCHANGED waitVars

\* wait_for_nodes_status returned to unschedule_nodes, which returns to remove_nodes
UnscheduleReturn ==
    /\ UNCHANGED <<wlVars, upiVars, netVars, isoVars>>
    /\ rpc = "unschedule"
    /\ wpc = "returned"
    /\ rpc' = "drain"
    /\ trace' = trace \o <<"wait:ok">>
    /\ UNCHANGED <<clusterVars, op, waitVars, batch, rerr, drained, drainTimedOut,
                   cephStatus, deleted, phaseErr>>

\* wait_for_nodes_status raised: the exception passes through unschedule_nodes
UnscheduleRaise ==
    /\ UNCHANGED <<wlVars, upiVars, netVars, isoVars>>
    /\ rpc = "unschedule"
    /\ wpc = "raised"
    /\ rpc' = "raised"
    /\ rerr' = werr
    /\ phaseErr' = werr
    /\ unsched' = OnFailure(unsched)
    /\ UNCHANGED <<listed, ready, op, waitVars, batch, drained, drainTimedOut,
                   cephStatus, deleted, trace>>

\* drain_nodes: 'oc adm drain <names> ...' with timeout=1200
Drain ==
    /\ UNCHANGED <<wlVars, upiVars, netVars, isoVars>>
    /\ rpc = "drain"
    /\ UNCHANGED <<listed, ready, op, waitVars, batch, cephStatus, deleted>>
    /\ \E k \in 0..Len(batch), e \in {"TimeoutExpired", "CommandFailed"} :
          /\ drained' = SeqToSet(Prefix(batch, k))
          /\ IF k = Len(batch)
             THEN /\ e = "TimeoutExpired"
                  /\ trace' = trace \o <<"drain", "drain:ok">>
                  /\ rpc' = AfterDrain(TRUE)
                  /\ UNCHANGED <<rerr, phaseErr, drainTimedOut, unsched>>
             ELSE IF e = "TimeoutExpired"
             THEN /\ trace' = trace \o <<"drain">>
                  /\ drainTimedOut' = TRUE
                  /\ phaseErr' = e
                  /\ rerr' = e
                  /\ rpc' = OnDrainTimeout
                  /\ UNCHANGED unsched
             ELSE /\ trace' = trace \o <<"drain">>
                  /\ phaseErr' = e
                  /\ rerr' = e
                  /\ rpc' = AfterDrain(FALSE)
                  /\ unsched' = OnFailure(unsched)
                  /\ UNCHANGED drainTimedOut

\* except TimeoutExpired: get_ceph_tools_pod(), 'ceph status', log, raise
Capture ==
    /\ UNCHANGED <<wlVars, upiVars, netVars, isoVars>>
    /\ rpc = "capture"
    /\ \E captured \in BOOLEAN :
          /\ cephStatus' = captured
          /\ rerr' = CaptureOutcome(captured)
    /\ trace' = trace \o <<"ceph status">>
    /\ rpc' = AfterDrain(FALSE)
    /\ unsched' = OnFailure(unsched)
    /\ UNCHANGED <<listed, ready, op, waitVars, batch, drained, drainTimedOut,
                   deleted, phaseErr>>

\* 'oc delete nodes <names>'
Delete ==
    /\ UNCHANGED <<wlVars, upiVars, netVars, isoVars>>
    /\ rpc = "delete"
    /\ UNCHANGED <<ready, op, waitVars, batch, drained, drainTimedOut, cephStatus>>
    /\ \E k \in 0..Len(batch) :
          /\ deleted' = SeqToSet(Prefix(batch, k))
          /\ listed' = [n \in Nodes |-> listed[n] /\ n \notin SeqToSet(Prefix(batch, k))]
          /\ IF k = Len(batch)
             THEN /\ trace' = trace \o <<"delete", "delete:ok">>
                  /\ rpc' = "done"
                  /\ UNCHANGED <<rerr, phaseErr, unsched>>
             ELSE /\ trace' = trace \o <<"delete">>
                  /\ rpc' = "raised"
                  /\ rerr' = "CommandFailed"
                  /\ phaseErr' = "CommandFailed"
                  /\ unsched' = OnFailure(unsched)

\* ------------------------------------------------------------------ PASTest
STATUS_RUNNING == "Running"
STATUS_PENDING == "Pending"

ClientNames == {"bench-client-A", "bench-client-B"}
ServerNames == {"bench-server-1"}
Phases == {STATUS_PENDING, STATUS_RUNNING, "Succeeded", "Failed", "Unknown"}

\* re.search("client", fname)
IsClient(name) == name \in ClientNames

\* the lines 'get pod --no-headers -o custom-columns=:metadata.name,:status.phase' can print
Pods ==
    [name : ClientNames, phase : Phases] \cup [name : ServerNames, phase : {STATUS_RUNNING}]

Listings ==
    UNION {{l \in [1..k -> Pods] :
              \A i, j \in 1..k : i # j => l[i].name # l[j].name} : k \in 0..MaxPods}

\* (timeout, sleep) of the calls explored
WlParams ==
    {[timeout |-> 60, sleep |-> 5], [timeout |-> 10, sleep |-> 20],
     [timeout |-> 15, sleep |-> 5]}

RECURSIVE SelectClient(_)
\* the for-loop over results: the first line whose name contains 'client',
\* or ["", ""] when there is none
SelectClient(results) ==
    IF results = <<>> THEN [name |-> "", phase |-> ""]
    ELSE IF IsClient(Head(results).name) THEN Head(results)
    ELSE SelectClient(Tail(results))

\* variant: only a name never selected before counts as a restart
RestartedUnseen(name, tracked) == name # tracked /\ name \notin SeqToSet(seen)

\* 'if not fname == self.client_pod': the pod was restarted
Restarted(name, tracked) == name # tracked

\* restarts after the identity check of one cycle
CountRestart(n, name, tracked) == IF Restarted(name, tracked) THEN n + 1 ELSE n

\* history only: the names a sample gave are handled by its first line that
\* names a client pod, a sample without such a line gave no name
HandledByFirst(results, names) ==
    IF \A i \in DOMAIN results : ~IsClient(results[i].name)
    THEN names = <<>>
    ELSE /\ names # <<>>
         /\ \E i \in DOMAIN results :
               /\ results[i].name = names[1]
               /\ \A j \in 1..(i - 1) : ~IsClient(results[j].name)

RECURSIVE MatchingNewestFirst(_)
\* variant: the matching names are returned last line first
MatchingNewestFirst(results) ==
    IF results = <<>> THEN <<>>
    ELSE MatchingNewestFirst(Tail(results))
         \o (IF IsClient(Head(results).name) THEN <<Head(results).name>> ELSE <<>>)

RECURSIVE Matching(_)
\* get_pod_name_by_pattern(self.client_pod_name, namespace)
Matching(results) ==
    IF results = <<>> THEN <<>>
    ELSE (IF IsClient(Head(results).name) THEN <<Head(results).name>> ELSE <<>>)
         \o Matching(Tail(results))

\* deploy_and_wait_for_wl_to_start(timeout=300, sleep=20)
CallDeploy ==
    /\ UNCHANGED <<nodeVars, isoVars>>
    /\ wlpc = "setup"
    /\ wlpc' = "deploying"
    /\ start_elapsed' = 0
    /\ method' = "deploy"
    /\ UNCHANGED <<client_pod, wl_timeout, wl_sleep, Finished, restarts, total_time,
                   fname, pod_status, wlerr, test_logs, startPod, seen, counts,
                   phasesSeen, probes, sleeps, got, pickedFirst>>

\* one sample of TimeoutSampler(timeout, sleep, get_pod_name_by_pattern, ...)
DeployProbe ==
    /\ UNCHANGED <<nodeVars, isoVars>>
    /\ wlpc = "deploying"
    /\ UNCHANGED <<wl_timeout, wl_sleep, Finished, restarts, total_time, fname,
                   pod_status, test_logs, startPod, seen, counts, phasesSeen,
                   method, probes, sleeps, got>>
    /\ \E results \in Listings :
          LET bm_pod == Matching(results)
          IN /\ pickedFirst' = (pickedFirst /\ HandledByFirst(results, bm_pod))
             /\ IF bm_pod # <<>>
                THEN \* break: the sampler is dropped with its clock
                     /\ client_pod' = bm_pod[1]
                     /\ wlpc' = "started"
                     /\ start_elapsed' = 0
                     /\ UNCHANGED wlerr
                ELSE /\ start_elapsed' = start_elapsed + DEPLOY_SLEEP
                     /\ UNCHANGED client_pod
                     /\ IF SamplerExpired(start_elapsed + DEPLOY_SLEEP, DEPLOY_TIMEOUT)
                        THEN wlpc' = "raised" /\ wlerr' = "TimeoutExpiredError"
                        ELSE wlpc' = "deploying" /\ UNCHANGED wlerr

\* wait_for_wl_to_finish(timeout, sleep) is entered
CallWaitForWl ==
    /\ UNCHANGED <<nodeVars, isoVars>>
    /\ wlpc \in {"setup", "started"}
    /\ \E p \in WlParams : wl_timeout' = p.timeout /\ wl_sleep' = p.sleep /\ total_time' = p.timeout
    /\ Finished' = 0
    /\ restarts' = 0
    /\ wlpc' = "loop"
    /\ startPod' = client_pod
    /\ seen' = <<>>
    /\ counts' = <<>>
    /\ phasesSeen' = <<>>
    /\ method' = "wait"
    /\ probes' = 0
    /\ sleeps' = 0
    /\ UNCHANGED <<client_pod, fname, pod_status, wlerr, test_logs, start_elapsed, got,
                   pickedFirst>>

\* variant: the loop also runs with an exhausted budget of exactly zero
LoopConditionInclusive(fin, remaining) == fin = 0 /\ remaining >= 0

\* 'while not Finished and total_time > 0'
LoopCondition(fin, remaining) == fin = 0 /\ remaining > 0

\* variant: a listing without a runner pod is taken for a pod named ""
NoClientNever(name) == FALSE

\* 'if fname == ""': there is no client pod
NoClient(name) == name = ""

\* variant: a restart adds the full timeout to what is left
BudgetExtend(restarted, t, remaining) == IF restarted THEN remaining + t ELSE remaining

\* 'total_time = timeout' under the restart test, otherwise total_time as it is
Budget(restarted, t, remaining) == IF restarted THEN t ELSE remaining

\* variant: the cap is reached one restart early
TooManyRestartsEarly(n) == n >= MAX_RESTARTS

\* variant: one restart more is tolerated
TooManyRestartsLate(n) == n > MAX_RESTARTS + 1

\* 'if restarts > 3'
TooManyRestarts(n) == n > MAX_RESTARTS

\* variant: only the phase Failed ends the wait
IsFailurePhaseOnlyFailed(ph) == ph = "Failed"

\* 'elif status != STATUS_RUNNING and status != STATUS_PENDING' (after the
\* Succeeded test)
IsFailurePhase(ph) == ph # STATUS_RUNNING /\ ph # STATUS_PENDING

\* variant: the logs are read from the pod tracked before this cycle
LogTargetStale(selected, tracked) == tracked

\* 'logs {self.client_pod}', after self.client_pod = fname
LogTarget(selected, tracked) == selected

\* variant: the sleep is not charged to the budget
ChargeNothing(remaining, s) == remaining

\* 'total_time -= sleep'
Charge(remaining, s) == remaining - s

\* the observations of one runner pod that is seen Pending twice, then
\* Running, then Succeeded
PhaseRun == <<STATUS_PENDING, STATUS_PENDING, STATUS_RUNNING, "Succeeded">>

\* history only: the phases observed in this call as long as they are a
\* prefix of PhaseRun and the runner pod is the one of the first cycle
Follow(h, names, sel) ==
    IF /\ h # <<"off">>
       /\ Len(h) = Len(names)
       /\ Len(h) < Len(PhaseRun)
       /\ sel.phase = PhaseRun[Len(h) + 1]
       /\ names = <<>> \/ sel.name = names[1]
    THEN Append(h, sel.phase)
    ELSE <<"off">>

\* one iteration of 'while not Finished and total_time > 0'
WlCycle ==
    /\ UNCHANGED <<nodeVars, isoVars>>
    /\ wlpc = "loop"
    /\ LoopCondition(Finished, total_time)
    /\ UNCHANGED <<wl_timeout, wl_sleep, start_elapsed, startPod, method, pickedFirst>>
    /\ probes' = probes + 1
    /\ \E results \in Listings :
          LET sel == SelectClient(results)
              n == CountRestart(restarts, sel.name, client_pod)
              budget == Budget(Restarted(sel.name, client_pod), wl_timeout, total_time)
          IN /\ fname' = sel.name
             /\ pod_status' = sel.phase
             /\ IF NoClient(sel.name)
                THEN \* there is no 'client' pod
                     /\ wlpc' = "raised"
                     /\ wlerr' = "Exception: Failed to run"
                     /\ UNCHANGED <<client_pod, restarts, total_time, Finished,
                                    test_logs, seen, counts, phasesSeen, sleeps, got>>
                ELSE /\ client_pod' = sel.name
                     /\ restarts' = n
                     /\ total_time' =
                           IF ~TooManyRestarts(n) /\ sel.phase # "Succeeded"
                              /\ ~IsFailurePhase(sel.phase)
                           THEN Charge(budget, wl_sleep) ELSE budget
                     /\ seen' = IF Len(seen) < MaxSeen THEN Append(seen, sel.name) ELSE seen
                     /\ counts' = IF Len(seen) < MaxSeen THEN Append(counts, n) ELSE counts
                     /\ phasesSeen' = Follow(phasesSeen, seen, sel)
                     /\ IF TooManyRestarts(n)
                        THEN /\ wlpc' = "raised"
                             /\ wlerr' = "Exception: Too much restarts"
                             /\ UNCHANGED <<Finished, test_logs, sleeps, got>>
                        ELSE IF sel.phase = "Succeeded"
                        THEN /\ test_logs' = LogTarget(sel.name, client_pod)
                             /\ Finished' = 1
                             /\ UNCHANGED <<wlpc, wlerr, sleeps, got>>
                        ELSE IF IsFailurePhase(sel.phase)
                        THEN /\ wlpc' = "raised"
                             /\ wlerr' = "ResourceWrongStatusException"
                             /\ got' = sel.phase
                             /\ UNCHANGED <<Finished, test_logs, sleeps>>
                        ELSE \* time.sleep(sleep); total_time -= sleep
                             /\ sleeps' = sleeps + 1
                             /\ UNCHANGED <<wlpc, wlerr, Finished, test_logs, got>>

\* the loop condition fails: TimeoutExpiredError unless Finished
WlExit ==
    /\ UNCHANGED <<nodeVars, isoVars>>
    /\ wlpc = "loop"
    /\ ~LoopCondition(Finished, total_time)
    /\ IF Finished = 0
       THEN wlpc' = "raised" /\ wlerr' = "TimeoutExpiredError"
       ELSE wlpc' = "returned" /\ UNCHANGED wlerr
    /\ UNCHANGED <<client_pod, wl_timeout, wl_sleep, Finished, restarts, total_time,
                   fname, pod_status, test_logs, start_elapsed, startPod, seen, counts,
                   phasesSeen, method, probes, sleeps, got, pickedFirst>>

\* ------------------------------------------------ add_new_node_and_label_upi
\* tests.helpers.get_worker_nodes(): the names of the worker nodes (every
\* node of the model is a worker)
get_worker_nodes == {n \in Nodes : listed[n]}

\* the orders in which list(set(...)) can enumerate S
Orders(S) == {q \in [1..Cardinality(S) -> S] : \A i, j \in DOMAIN q : i # j => q[i] # q[j]}

\* variant: the poll ends as soon as the worker list has grown at all
ExpansionSeenAnyGrowth(sample, initial, n) == Cardinality(sample) > Cardinality(initial)

\* 'if len(sample) == len(initial_nodes) + num_nodes: break'
ExpansionSeen(sample, initial, n) == Cardinality(sample) = Cardinality(initial) + n

\* initial_nodes = get_worker_nodes();
\* node_util.create_and_attach_nodes_to_cluster({}, node_type, num_nodes)
CallUpi ==
    /\ UNCHANGED <<wlVars, netVars, isoVars>>
    /\ op = "none"
    /\ op' = "upi"
    /\ initial_nodes' = get_worker_nodes
    /\ \E n \in 0..MaxDelta :
          /\ num_nodes' = n
          /\ requests' = Append(requests, n)
    /\ up_elapsed' = 0
    /\ upc' = "poll"
    /\ UNCHANGED <<clusterVars, waitVars, removeVars, mark_for_ocs_label,
                   new_spun_nodes, selinux, labeled, uerr>>

\* one sample of TimeoutSampler(timeout=600, sleep=6, func=get_worker_nodes)
\* and the loop body on it
UpiPoll ==
    /\ UNCHANGED <<wlVars, netVars, isoVars>>
    /\ upc = "poll"
    /\ upc' = IF ExpansionSeen(get_worker_nodes, initial_nodes, num_nodes)
              THEN "snapshot" ELSE "sleep"
    /\ UNCHANGED <<clusterVars, op, waitVars, removeVars, initial_nodes, num_nodes,
                   mark_for_ocs_label, up_elapsed, new_spun_nodes, selinux, labeled,
                   uerr, requests>>

\* the sampler sleeps one interval, then probes again or raises TimeoutExpiredError
UpiSleep ==
    /\ UNCHANGED <<wlVars, netVars, isoVars>>
    /\ upc = "sleep"
    /\ up_elapsed' = up_elapsed + UPI_SLEEP
    /\ IF SamplerExpired(up_elapsed + UPI_SLEEP, UPI_TIMEOUT)
       THEN upc' = "raised" /\ uerr' = "TimeoutExpiredError"
       ELSE upc' = "poll" /\ UNCHANGED uerr
    /\ UNCHANGED <<clusterVars, op, waitVars, removeVars, initial_nodes, num_nodes,
                   mark_for_ocs_label, new_spun_nodes, selinux, labeled, requests>>

\* variant: every worker listed after the expansion counts as new
NewSpunAll(after, initial) == after

\* new_spun_nodes = list(set(nodes_after_exp) - set(initial_nodes))
NewSpun(after, initial) == after \ initial

\* nodes_after_exp = get_worker_nodes(); new_spun_nodes is computed from it
\* and initial_nodes; initial_nodes and num_nodes are not read again and
\* leave the frame
UpiSnapshot ==
    /\ UNCHANGED <<wlVars, netVars, isoVars>>
    /\ upc = "snapshot"
    /\ new_spun_nodes' = NewSpun(get_worker_nodes, initial_nodes)
    /\ initial_nodes' = {}
    /\ num_nodes' = 0
    /\ up_elapsed' = 0
    /\ upc' = "wait"
    /\ UNCHANGED <<clusterVars, op, waitVars, removeVars,
                   mark_for_ocs_label, selinux, labeled, uerr, requests>>

\* wait_for_nodes_status(node_names=get_worker_nodes(), status=NODE_READY)
UpiCallWait ==
    /\ UNCHANGED <<wlVars, netVars, isoVars>>
    /\ upc = "wait"
    /\ EnterWait(Ascending(get_worker_nodes, 1), NODE_READY, DEFAULT_TIMEOUT)
    /\ upc' = "waiting"
    /\ UNCHANGED <<clusterVars, op, removeVars, initial_nodes, num_nodes,
                   mark_for_ocs_label, up_elapsed, new_spun_nodes, selinux, labeled,
                   uerr, requests>>

\* the sampler of that wait sleeps one interval. Its clock is not counted
\* here: the deadline of DEFAULT_TIMEOUT can be reached at any sleep, which
\* includes the one sleep at which the program reaches it
UpiWaitSleep ==
    /\ UNCHANGED <<wlVars, upiVars, netVars, isoVars>>
    /\ upc = "waiting"
    /\ wpc = "sleep"
    /\ UNCHANGED <<clusterVars, op, removeVars, node_names, status, timeout,
                   nodes_not_in_state, elapsed, givenNames, bootSnapshot, observed,
                   emptySeen, strayRead>>
    /\ \E expired \in BOOLEAN :
          IF expired
          THEN wpc' = "raised" /\ TimeoutHandler(node_names, nodes_not_in_state)
          ELSE wpc' = "poll" /\ UNCHANGED <<werr, reported, described, timedOut>>

\* wait_for_nodes_status raised: the exception leaves add_new_node_and_label_upi
UpiWaitRaise ==
    /\ UNCHANGED <<wlVars, netVars, isoVars>>
    /\ upc = "waiting"
    /\ wpc = "raised"
    /\ upc' = "raised"
    /\ uerr' = werr
    /\ UNCHANGED <<clusterVars, op, waitVars, removeVars, initial_nodes, num_nodes,
                   mark_for_ocs_label, up_elapsed, new_spun_nodes, selinux, labeled,
                   requests>>

\* after the wait: set_selinux_permissions for RHEL nodes, then add_label on
\* every new node when mark_for_ocs_label; node_type and mark_for_ocs_label
\* are read here for the first time, so their values are drawn here
UpiLabel ==
    /\ UNCHANGED <<wlVars, netVars, isoVars>>
    /\ upc = "waiting"
    /\ wpc = "returned"
    /\ \E rhel \in BOOLEAN : selinux' = IF rhel THEN new_spun_nodes ELSE {}
    /\ \E mark \in BOOLEAN :
          /\ mark_for_ocs_label' = mark
          /\ IF mark
             THEN \E q \in Orders(new_spun_nodes), k \in 0..Cardinality(new_spun_nodes) :
                     /\ \A i \in 1..k : listed[q[i]]
                     /\ labeled' = {q[i] : i \in 1..k}
                     /\ IF k = Cardinality(new_spun_nodes)
                        THEN upc' = "returned" /\ UNCHANGED uerr
                        ELSE upc' = "raised" /\ uerr' = "CommandFailed"
             ELSE upc' = "returned" /\ UNCHANGED <<labeled, uerr>>
    /\ UNCHANGED <<clusterVars, op, waitVars, removeVars, initial_nodes, num_nodes,
                   up_elapsed, new_spun_nodes, requests>>

\* ----------------------------------------------------- node_network_failure
\* what exec_oc_debug_cmd(node, [fail_nw_cmd], timeout=15) can do: complete,
\* hit its timeout, or fail
DebugOutcomes == {"ok", "TimeoutExpired", "CommandFailed"}

\* variant: no exception of the debug command is caught
SwallowedNever(e) == FALSE

\* 'except TimeoutExpired: pass'
Swallowed(e) == e = "TimeoutExpired"

\* node_network_failure(node_names, wait) is entered; a name that is not a
\* list has become a one-element list
CallNetFail ==
    /\ UNCHANGED <<wlVars, upiVars, isoVars>>
    /\ op = "none"
    /\ op' = "netfail"
    /\ \E names \in NameLists, w \in BOOLEAN :
          /\ net_names' = names
          /\ net_wait' = w
    /\ npc' = "loop"
    /\ attempted' = <<>>
    /\ swallowed' = {}
    /\ nerr' = "none"
    /\ UNCHANGED <<clusterVars, waitVars, removeVars>>

\* one iteration of 'for node_name in node_names'
NetDown ==
    /\ UNCHANGED <<wlVars, upiVars, isoVars>>
    /\ npc = "loop"
    /\ Len(attempted) < Len(net_names)
    /\ LET node_name == net_names[Len(attempted) + 1]
       IN /\ attempted' = Append(attempted, node_name)
          /\ \E e \in DebugOutcomes :
                IF e = "ok"
                THEN UNCHANGED <<npc, nerr, swallowed>>
                ELSE IF Swallowed(e)
                THEN swallowed' = swallowed \cup {node_name} /\ UNCHANGED <<npc, nerr>>
                ELSE npc' = "raised" /\ nerr' = e /\ UNCHANGED swallowed
    /\ UNCHANGED <<clusterVars, op, waitVars, removeVars, net_names, net_wait>>

\* the loop is over: 'if wait: wait_for_nodes_status(node_names=node_names,
\* status=NODE_NOT_READY)', else 'return True' at once
NetAfterLoop ==
    /\ UNCHANGED <<wlVars, upiVars, isoVars>>
    /\ npc = "loop"
    /\ Len(attempted) = Len(net_names)
    /\ IF net_wait
       THEN /\ EnterWait(net_names, NODE_NOT_READY, DEFAULT_TIMEOUT)
            /\ npc' = "waiting"
       ELSE /\ npc' = "returned"
            /\ UNCHANGED waitVars
    /\ UNCHANGED <<clusterVars, op, removeVars, net_names, net_wait, attempted,
                   swallowed, nerr>>

\* the sampler of that wait sleeps one interval. Its clock is not counted
\* here: the deadline of DEFAULT_TIMEOUT can be reached at any sleep, which
\* includes the one sleep at which the program reaches it
NetWaitSleep ==
    /\ UNCHANGED <<wlVars, upiVars, netVars, isoVars>>
    /\ npc = "waiting"
    /\ wpc = "sleep"
    /\ UNCHANGED <<clusterVars, op, removeVars, node_names, status, timeout,
                   nodes_not_in_state, elapsed, givenNames, bootSnapshot, observed,
                   emptySeen, strayRead>>
    /\ \E expired \in BOOLEAN :
          IF expired
          THEN wpc' = "raised" /\ TimeoutHandler(node_names, nodes_not_in_state)
          ELSE wpc' = "poll" /\ UNCHANGED <<werr, reported, described, timedOut>>

\* the wait is over: 'return True', or its exception leaves node_network_failure
NetWaitEnd ==
    /\ UNCHANGED <<wlVars, upiVars, isoVars>>
    /\ npc = "waiting"
    /\ wpc \in {"returned", "raised"}
    /\ IF wpc = "returned"
       THEN npc' = "returned" /\ UNCHANGED nerr
       ELSE npc' = "raised" /\ nerr' = werr
    /\ UNCHANGED <<clusterVars, op, waitVars, removeVars, net_names, net_wait,
                   attempted, swallowed>>

\* ------------------------------------------------ add_new_node_and_label_it
\* variant: the replica count is set to the count read
ReplicaTargetSame(r) == r

\* 'count=machineset_replica_count + 1'
ReplicaTarget(r) == r + 1

\* variant: every worker listed after the scale-up counts as new
NewSpunNodeAny(after, before) == after

\* 'list(set(nodes_after_new_spun_node) - set(initial_nodes))'
NewSpunNode(after, before) == after \ before

\* the function is entered: the worker snapshot, the replica count, and
\* machine.add_node with the raised count
CallLabelIt ==
    /\ UNCHANGED itRest
    /\ op = "none"
    /\ op' = "labelit"
    /\ it_initial' = get_worker_nodes
    /\ \E r \in 0..MaxReplicas, scaled \in BOOLEAN :
          /\ replica_read' = r
          /\ replica_set' = ReplicaTarget(r)
          /\ IF scaled
             THEN ipc' = "waiting" /\ UNCHANGED ierr
             ELSE ipc' = "raised" /\ ierr' = "CommandFailed"
    /\ UNCHANGED <<it_after, it_labeled, it_returned>>

\* machine.wait_for_new_node_to_be_ready(machineset_name) returns or raises
ItWait ==
    /\ UNCHANGED <<itRest, op>>
    /\ ipc = "waiting"
    /\ \E came \in BOOLEAN :
          IF came
          THEN ipc' = "ready" /\ UNCHANGED ierr
          ELSE ipc' = "raised" /\ ierr' = "ResourceWrongStatusException"
    /\ UNCHANGED <<it_initial, replica_read, replica_set, it_after, it_labeled,
                   it_returned>>

\* the second listing, the difference, add_label on its element 0 and the
\* return. The order of a list made from a set is any order
ItLabel ==
    /\ UNCHANGED <<itRest, op>>
    /\ ipc = "ready"
    /\ it_after' = get_worker_nodes
    /\ LET new_spun_node == NewSpunNode(get_worker_nodes, it_initial)
       IN IF new_spun_node = {}
          THEN /\ ipc' = "raised"
               /\ ierr' = "IndexError"
               /\ UNCHANGED <<it_labeled, it_returned>>
          ELSE \E first \in new_spun_node, done \in BOOLEAN :
                  IF done
                  THEN /\ it_labeled' = {first}
                       /\ it_returned' = first
                       /\ ipc' = "returned"
                       /\ UNCHANGED ierr
                  ELSE /\ ipc' = "raised"
                       /\ ierr' = "CommandFailed"
                       /\ UNCHANGED <<it_labeled, it_returned>>
    /\ UNCHANGED <<it_initial, replica_read, replica_set>>

\* -------------------------------------------------------------- environment
Running ==
    \/ op = "none"
    \/ op = "wait" /\ wpc \notin {"returned", "raised"}
    \/ op = "remove" /\ rpc \notin {"done", "raised"}
    \/ /\ op = "upi" /\ upc \notin {"returned", "raised"}
       \* nothing is read between the end of the wait and the labels, which
       \* can fail in any case
       /\ ~(upc = "waiting" /\ wpc \in {"returned", "raised"})
    \/ op = "labelit" /\ ipc \notin {"returned", "raised"}
    \* node_network_failure reads the cluster only through its wait
    \/ op = "netfail" /\ npc = "waiting" /\ wpc \notin {"returned", "raised"}

\* an operation that reads the nodes' status is running
StatusRead ==
    \/ op \in {"wait", "remove"}
    \/ op = "upi" /\ upc = "waiting"
    \/ op = "netfail" /\ npc = "waiting"

\* a node's kubelet goes Ready <-> NotReady
NodeFlap ==
    /\ UNCHANGED <<wlVars, upiVars, netVars, isoVars>>
    /\ Running
    /\ StatusRead
    /\ \E n \in Nodes : ready' = [ready EXCEPT ![n] = ~ready[n]]
    /\ UNCHANGED <<listed, unsched, op, waitVars, removeVars>>

\* a node appears in, or disappears from, the node listing
ListingChange ==
    /\ UNCHANGED <<wlVars, upiVars, netVars, isoVars>>
    /\ Running
    /\ \E n \in Nodes : listed' = [listed EXCEPT ![n] = ~listed[n]]
    /\ UNCHANGED <<ready, unsched, op, waitVars, removeVars>>

\* ------------------- test_bulk_pvc_creation_deletion_measurement_performance
\* ThreadPoolExecutor(max_workers=5)
MAX_WORKERS == 5

\* the bulk sizes explored (the test is parametrized with 120 and 720)
BulkSizes == 1..MaxBulk

\* the tasks submitted for one bulk: two per PVC
TaskCount(bulk) == 2 * bulk

\* the callable of task i: wait_for_resource_state(pvc_obj, STATUS_BOUND),
\* then pvc_obj.reload, for each PVC in turn
TaskKind(i) == IF i % 2 = 1 THEN "wait_for_resource_state" ELSE "reload"

\* the tasks executing now
Executing == (1..started) \ finished

\* variant: the executor spawns a thread for every submit
CanSpawnAlways(n) == TRUE

\* the executor spawns a worker thread only below max_workers
CanSpawn(n) == n < MAX_WORKERS

\* 'if total_time > multi_creation_time_limit', the limit being bulk_size / 2
TooSlow(total, bulk) == 2 * total > bulk

\* the test is entered: create_bulk_pvcs, then reload and teardown_factory for
\* every PVC; then the executor of the with-statement is constructed
CallBulk ==
    /\ UNCHANGED <<nodeVars, wlVars, healthVars, fixtureVars, extraVars>>
    /\ ppc = "idle"
    /\ \E b \in BulkSizes : bulk_size' = b
    /\ \E created \in BOOLEAN :
          IF created
          THEN ppc' = "submit" /\ UNCHANGED perr
          ELSE ppc' = "raised" /\ perr' = "CommandFailed"
    /\ UNCHANGED <<submitted, started, finished, raisedTasks, threads, peak>>

\* one executor.submit: the work item is queued and a worker thread is
\* spawned unless an idle one is reused or max_workers is reached
Submit ==
    /\ UNCHANGED <<nodeVars, wlVars, healthVars, fixtureVars, extraVars>>
    /\ ppc = "submit"
    /\ submitted < TaskCount(bulk_size)
    /\ submitted' = submitted + 1
    /\ \E reuse \in BOOLEAN :
          threads' = IF reuse /\ Cardinality(Executing) < threads THEN threads
                     ELSE IF CanSpawn(threads) THEN threads + 1
                     ELSE threads
    /\ UNCHANGED <<ppc, bulk_size, started, finished, raisedTasks, peak, perr>>

\* the with-block ends: __exit__ calls shutdown(wait=True)
Shutdown ==
    /\ UNCHANGED <<nodeVars, wlVars, healthVars, fixtureVars, extraVars>>
    /\ ppc = "submit"
    /\ submitted = TaskCount(bulk_size)
    /\ ppc' = "join"
    /\ UNCHANGED <<bulk_size, submitted, started, finished, raisedTasks, threads,
                   peak, perr>>

\* an idle worker thread takes the oldest queued work item and runs it
TaskStart ==
    /\ UNCHANGED <<nodeVars, wlVars, healthVars, fixtureVars, extraVars>>
    /\ ppc \in {"submit", "join"}
    /\ started < submitted
    /\ Cardinality(Executing) < threads
    /\ started' = started + 1
    /\ peak' = IF Cardinality(Executing) + 1 > peak THEN Cardinality(Executing) + 1
               ELSE peak
    /\ UNCHANGED <<ppc, bulk_size, submitted, finished, raisedTasks, threads, perr>>

\* a running callable ends; its result or exception is stored in its future
TaskFinish ==
    /\ UNCHANGED <<nodeVars, wlVars, healthVars, fixtureVars, extraVars>>
    /\ ppc \in {"submit", "join"}
    /\ \E t \in Executing, failed \in BOOLEAN :
          /\ finished' = finished \cup {t}
          /\ raisedTasks' = IF failed THEN raisedTasks \cup {t} ELSE raisedTasks
    /\ UNCHANGED <<ppc, bulk_size, submitted, started, threads, peak, perr>>

\* shutdown(wait=True) returns when the workers have drained the queue and
\* were joined
Joined ==
    /\ UNCHANGED <<nodeVars, wlVars, healthVars, fixtureVars, extraVars>>
    /\ ppc = "join"
    /\ started = submitted
    /\ Executing = {}
    /\ ppc' = "measure"
    /\ UNCHANGED <<bulk_size, submitted, started, finished, raisedTasks, threads,
                   peak, perr>>

\* get_provision_time for start and end, the limit check, then the bulk
\* deletion and its measurement
Measure ==
    /\ UNCHANGED <<nodeVars, wlVars, healthVars, fixtureVars, extraVars>>
    /\ ppc = "measure"
    /\ \E total_time_s \in 0..MaxBulk :
          IF TooSlow(total_time_s, bulk_size)
          THEN ppc' = "raised" /\ perr' = "PerformanceException"
          ELSE ppc' = "passed" /\ UNCHANGED perr
    /\ UNCHANGED <<bulk_size, submitted, started, finished, raisedTasks, threads, peak>>

\* -------------------------------------------------------- ceph_health_check
\* @retry((CephHealthException, CommandFailed), tries=20, delay=30, backoff=1)
HEALTH_TRIES == 20
HEALTH_DELAY == 30
HEALTH_BACKOFF == 1

\* the pieces an output of 'ceph health' is made of: the status words and
\* white space
HealthWords == {"HEALTH_OK", "HEALTH_WARN"}
WhiteSpace == {" "}

\* the outputs explored
HealthOutputs ==
    UNION {[1..k -> HealthWords \cup WhiteSpace] : k \in 0..MaxHealthLen}

\* no 'ceph health' output was read
NoHealth == <<"-">>

RECURSIVE LStrip(_)
LStrip(h) ==
    IF h # <<>> /\ Head(h) \in WhiteSpace THEN LStrip(Tail(h)) ELSE h

RECURSIVE RStrip(_)
RStrip(h) ==
    IF h # <<>> /\ h[Len(h)] \in WhiteSpace THEN RStrip(SubSeq(h, 1, Len(h) - 1))
    ELSE h

\* health.strip()
Strip(h) == RStrip(LStrip(h))

\* variant: any output that holds the word counts as healthy
IsHealthOkContains(h) == \E i \in 1..Len(h) : h[i] = "HEALTH_OK"

\* 'if health.strip() == "HEALTH_OK"'
IsHealthOk(h) == Strip(h) = <<"HEALTH_OK">>

\* what one run of the function body can do: one of its three run_cmd calls
\* fails or raises something else, or 'ceph health' prints an output
BodyFailures == {"CommandFailed", "TimeoutExpired"}

\* variant: only the health verdict is retried
RetryableOnlyHealth(e) == e = "CephHealthException"

\* the exception tuple given to retry
Retryable(e) == e \in {"CephHealthException", "CommandFailed"}

\* the decorator's loop condition: another try is left after this one
TriesLeft(m) == m > 1

\* the decorator's delay after a sleep
NextDelay(d) == d * HEALTH_BACKOFF

\* the decorated ceph_health_check is called
CallHealth ==
    /\ UNCHANGED <<nodeVars, wlVars, poolVars, fixtureVars, extraVars>>
    /\ hpc = "idle"
    /\ hpc' = "call"
    /\ mtries' = HEALTH_TRIES
    /\ mdelay' = HEALTH_DELAY
    /\ UNCHANGED <<calls, hsleeps, delays, lastHealth, herr>>

\* one run of the function body under the decorator
HealthAttempt ==
    /\ UNCHANGED <<nodeVars, wlVars, poolVars, fixtureVars, extraVars>>
    /\ hpc = "call"
    /\ calls' = calls + 1
    /\ \E e \in BodyFailures \cup {"none"}, health \in HealthOutputs :
          LET raised == IF e # "none" THEN e
                        ELSE IF IsHealthOk(health) THEN "none"
                        ELSE "CephHealthException"
          IN /\ lastHealth' = IF e # "none" THEN NoHealth ELSE health
             /\ IF raised = "none"
                THEN hpc' = "returned" /\ UNCHANGED herr
                ELSE /\ herr' = raised
                     /\ hpc' = IF Retryable(raised) /\ TriesLeft(mtries)
                               THEN "sleep" ELSE "raised"
    /\ UNCHANGED <<mtries, mdelay, hsleeps, delays>>

\* the decorator sleeps, counts the try and computes the next delay
HealthSleep ==
    /\ UNCHANGED <<nodeVars, wlVars, poolVars, fixtureVars, extraVars>>
    /\ hpc = "sleep"
    /\ hsleeps' = hsleeps + 1
    /\ delays' = delays \cup {mdelay}
    /\ mtries' = mtries - 1
    /\ mdelay' = NextDelay(mdelay)
    /\ hpc' = "call"
    /\ UNCHANGED <<calls, lastHealth, herr>>

\* ---------------------------------------- cluster fixture, test_deployment
\* the values an option of the run can hold: absent, or a boolean
CliValues == {"None", "False", "True"}

\* the truth value of an option in 'if', 'not', 'and', 'or'
Truthy(v) == v = "True"

\* is_cluster_running(cluster_path)
is_cluster_running == cluster_up

\* 'if config.teardown: request.addfinalizer(cluster_teardown)'
RegistersTeardown(t) == Truthy(t)

\* variant: a requested teardown alone lets the fixture return
TeardownOnlyAnyDeploy(d, t) == Truthy(t)

\* 'elif config.teardown and not config.deploy'
TeardownOnly(d, t) == Truthy(t) /\ ~Truthy(d)

\* variant: the fixture never gives up on an unreachable cluster
NoWayToClusterNever(d, t) == FALSE

\* 'elif not config.deploy and not config.teardown'
NoWayToCluster(d, t) == ~Truthy(d) /\ ~Truthy(t)

\* test_deployment: 'if not teardown or deploy'
MustAssert(d, t) == ~Truthy(t) \/ Truthy(d)

\* the stages of the fixture after its branches, in order
DeployStages ==
    <<"install-config", "installer", "create cluster", "set_kubeconfig",
      "resources", "cephfilesystem">>

\* the error a stage ends the fixture with when it fails
StageError(stage) ==
    IF stage = "set_kubeconfig" THEN "Failed"
    ELSE IF stage = "cephfilesystem" THEN "NameError"
    ELSE "CommandFailed"

\* a test session begins with its options and a cluster that may be running
SessionStart ==
    /\ UNCHANGED <<nodeVars, wlVars, poolVars, healthVars, extraVars>>
    /\ fpc = "idle"
    /\ fpc' = "setup"
    /\ \E d \in CliValues, t \in CliValues, up \in BOOLEAN :
          /\ deploy' = d
          /\ teardown' = t
          /\ cluster_up' = up
    /\ UNCHANGED <<seenRunning, finalizers, steps, asserted, ferr, terr, tderr>>

\* the cluster fixture up to the end of its if-chain
FixtureEnter ==
    /\ UNCHANGED <<nodeVars, wlVars, poolVars, healthVars, extraVars>>
    /\ fpc = "setup"
    /\ finalizers' = IF RegistersTeardown(teardown) THEN <<"cluster_teardown">> ELSE <<>>
    /\ seenRunning' = IF is_cluster_running THEN "yes" ELSE "no"
    /\ IF is_cluster_running
       THEN fpc' = "ready" /\ UNCHANGED ferr
       ELSE IF TeardownOnly(deploy, teardown)
       THEN fpc' = "ready" /\ UNCHANGED ferr
       ELSE IF NoWayToCluster(deploy, teardown)
       THEN fpc' = "failed" /\ ferr' = "Failed"
       ELSE fpc' = "deploying" /\ UNCHANGED ferr
    /\ UNCHANGED <<deploy, teardown, cluster_up, steps, asserted, terr, tderr>>

\* the next stage of the deployment. 'create cluster' brings the cluster up
\* when it succeeds; set_kubeconfig fails the session when the cluster cannot
\* be reached; the CephFileSystem stage reads the name 'defaults', which the
\* module does not define
DeployStage ==
    /\ UNCHANGED <<nodeVars, wlVars, poolVars, healthVars, extraVars>>
    /\ fpc = "deploying"
    /\ LET stage == DeployStages[Len(steps) + 1]
       IN /\ steps' = Append(steps, stage)
          /\ \E ok \in BOOLEAN :
                LET done == IF stage = "cephfilesystem" THEN FALSE
                            ELSE IF stage = "set_kubeconfig" THEN is_cluster_running
                            ELSE ok
                IN /\ cluster_up' = IF stage = "create cluster" THEN done ELSE cluster_up
                   /\ IF done
                      THEN UNCHANGED <<fpc, ferr>>
                      ELSE fpc' = "failed" /\ ferr' = StageError(stage)
    /\ UNCHANGED <<deploy, teardown, seenRunning, finalizers, asserted, terr, tderr>>

\* test_deployment runs in a session whose fixture completed
TestDeployment ==
    /\ UNCHANGED <<nodeVars, wlVars, poolVars, healthVars, extraVars>>
    /\ fpc = "ready"
    /\ fpc' = "tested"
    /\ asserted' = MustAssert(deploy, teardown)
    /\ terr' = IF MustAssert(deploy, teardown) /\ ~is_cluster_running
               THEN "AssertionError" ELSE "none"
    /\ UNCHANGED <<deploy, teardown, cluster_up, seenRunning, finalizers, steps,
                   ferr, tderr>>

\* the session ends and runs its finalizers: cluster_teardown reads the name
\* ENV_DATA, which the module does not define, before destroy_cluster is called
SessionFinish ==
    /\ UNCHANGED <<nodeVars, wlVars, poolVars, healthVars, extraVars>>
    /\ fpc \in {"tested", "failed"}
    /\ fpc' = "finished"
    /\ tderr' = IF finalizers # <<>> THEN "NameError" ELSE "none"
    /\ UNCHANGED <<deploy, teardown, cluster_up, seenRunning, finalizers, steps,
                   asserted, ferr, terr>>

\* the cluster stops being reachable while the session uses it
ClusterOutage ==
    /\ UNCHANGED <<nodeVars, wlVars, poolVars, healthVars, extraVars>>
    /\ fpc \in {"deploying", "ready"}
    /\ cluster_up
    /\ cluster_up' = FALSE
    /\ UNCHANGED <<fpc, deploy, teardown, seenRunning, finalizers, steps, asserted,
                   ferr, terr, tderr>>

\* ----------------------------------------------- CloudIPIOCPDeployment.deploy
\* constants.GATHER_BOOTSTRAP_PATTERN, as the words it is made of
GATHER_BOOTSTRAP_PATTERN == <<"gather", "bootstrap">>

\* the words an error text of the installer is made of
ErrWords == {"gather", "bootstrap", "failed"}

\* the error texts explored
ErrTexts == UNION {[1..k -> ErrWords] : k \in 0..MaxTextLen}

\* variant: one word of the pattern is enough
ContainsAnyWord(pattern, text) ==
    \E i \in DOMAIN text, j \in DOMAIN pattern : text[i] = pattern[j]

\* 'pattern in text'
Contains(pattern, text) ==
    \E i \in 0..(Len(text) - Len(pattern)) :
       SubSeq(text, i + 1, i + Len(pattern)) = pattern

\* what gather_bootstrap() can raise
GatherErrors == {"CommandFailed", "TimeoutExpired"}

\* deploy(log_cli_level) is entered
CallCloudDeploy ==
    /\ UNCHANGED cloudRest
    /\ cpc = "idle"
    /\ cpc' = "install"
    /\ \E level \in {"DEBUG", "INFO"} : log_cli_level' = level
    /\ UNCHANGED <<errText, gathered, logged, tested, cerr>>

\* run_cmd('<installer> create cluster ...', timeout=3600)
CloudInstall ==
    /\ UNCHANGED cloudRest
    /\ cpc = "install"
    /\ \E outcome \in {"ok", "CommandFailed", "TimeoutExpired"}, text \in ErrTexts :
          IF outcome = "ok"
          THEN cpc' = "test" /\ UNCHANGED <<errText, cerr>>
          ELSE IF outcome = "CommandFailed"
          THEN cpc' = "except" /\ errText' = text /\ UNCHANGED cerr
          ELSE cpc' = "raised" /\ cerr' = outcome /\ UNCHANGED errText
    /\ UNCHANGED <<log_cli_level, gathered, logged, tested>>

\* 'except CommandFailed as e: if GATHER_BOOTSTRAP_PATTERN in str(e)'
CloudExcept ==
    /\ UNCHANGED cloudRest
    /\ cpc = "except"
    /\ cpc' = IF Contains(GATHER_BOOTSTRAP_PATTERN, errText) THEN "gather" ELSE "reraise"
    /\ UNCHANGED <<log_cli_level, errText, gathered, logged, tested, cerr>>

\* 'try: gather_bootstrap() except Exception as ex: logger.error(ex)'
CloudGather ==
    /\ UNCHANGED cloudRest
    /\ cpc = "gather"
    /\ gathered' = TRUE
    /\ \E ex \in GatherErrors \cup {"none"} : logged' = ex
    /\ cpc' = "reraise"
    /\ UNCHANGED <<log_cli_level, errText, tested, cerr>>

\* 'raise e'
CloudReraise ==
    /\ UNCHANGED cloudRest
    /\ cpc = "reraise"
    /\ cpc' = "raised"
    /\ cerr' = "CommandFailed"
    /\ UNCHANGED <<log_cli_level, errText, gathered, logged, tested>>

\* self.test_cluster()
CloudTest ==
    /\ UNCHANGED cloudRest
    /\ cpc = "test"
    /\ tested' = TRUE
    /\ \E ok \in BOOLEAN :
          IF ok THEN cpc' = "returned" /\ UNCHANGED cerr
          ELSE cpc' = "raised" /\ cerr' = "CommandFailed"
    /\ UNCHANGED <<log_cli_level, errText, gathered, logged>>

\* ------------------------------------------- VSPHEREUPI.OCPDeployment.deploy
\* the calls of deploy in the order of its statements
DeploySteps ==
    <<"terraform.initialize", "terraform.apply", "wait-for bootstrap-complete",
      "terraform.apply bootstrap_complete", "set_kubeconfig", "wait_for_co",
      "configure_storage_for_image_registry", "wait-for install-complete",
      "test_cluster">>

\* the calls made between os.chdir(terraform_data_dir) and os.chdir(previous_dir)
InTerraformDir ==
    {"terraform.initialize", "terraform.apply", "terraform.apply bootstrap_complete"}

\* the run_cmd calls that are given a timeout
Timed == {"wait-for bootstrap-complete", "wait-for install-complete"}

\* the errors a failing step can raise
StepErrors(step) ==
    IF step \in Timed THEN {"CommandFailed", "TimeoutExpired"} ELSE {"CommandFailed"}

\* variant: a failing step is passed over
RaisesNever(step, ok) == FALSE

\* a step that fails raises, except OCP.set_kubeconfig, whose result is dropped
Raises(step, ok) == ~ok /\ step # "set_kubeconfig"

\* os.chdir: the directory after a step that raised or returned
CwdAfter(step, raised, before) ==
    IF step = "terraform.initialize" THEN "terraform_data_dir"
    ELSE IF step \in InTerraformDir
    THEN (IF raised THEN "terraform_data_dir" ELSE "previous_dir")
    ELSE before

\* the bootstrap VM after a terraform step: the first apply creates it, the
\* second removes it, and a failed apply may or may not have got that far
BootstrapAfter(step, ok, partial, before) ==
    IF step = "terraform.apply"
    THEN (IF ok \/ partial THEN "present" ELSE before)
    ELSE IF step = "terraform.apply bootstrap_complete"
    THEN (IF ok \/ partial THEN "removed" ELSE before)
    ELSE before

\* deploy(log_cli_level) is entered
CallVmwDeploy ==
    /\ UNCHANGED vmwRest
    /\ vpc = "idle"
    /\ vpc' = "running"
    /\ \E level \in {"DEBUG", "INFO"} : v_level' = level
    /\ UNCHANGED <<vsteps, vfailed, bootstrapNode, cwd, verr, dpc, mainFiles, dsteps, derr>>

\* the next statement of deploy
VmwStep ==
    /\ UNCHANGED vmwRest
    /\ vpc = "running"
    /\ Len(vsteps) < Len(DeploySteps)
    /\ LET step == DeploySteps[Len(vsteps) + 1]
       IN /\ vsteps' = Append(vsteps, step)
          /\ \E ok \in BOOLEAN, partial \in BOOLEAN, e \in StepErrors(step) :
                /\ vfailed' = IF ok THEN vfailed ELSE vfailed \cup {step}
                /\ bootstrapNode' = BootstrapAfter(step, ok, partial, bootstrapNode)
                /\ IF Raises(step, ok)
                   THEN /\ vpc' = "raised"
                        /\ verr' = e
                        /\ cwd' = CwdAfter(step, TRUE, cwd)
                   ELSE /\ vpc' = IF step = "test_cluster" THEN "returned" ELSE "running"
                        /\ cwd' = CwdAfter(step, FALSE, cwd)
                        /\ UNCHANGED verr
    /\ UNCHANGED <<v_level, dpc, mainFiles, dsteps, derr>>

\* the statements of destroy_cluster in their order; the rename is made only
\* when both files exist
DestroySteps(files) ==
    <<"clone_repo">>
    \o (IF files = {"backup", "json"} THEN <<"os.rename">> ELSE <<>>)
    \o <<"terraform.initialize upgrade", "terraform.destroy">>

\* the error a failing step of destroy_cluster raises
DestroyError(step) == IF step = "os.rename" THEN "OSError" ELSE "CommandFailed"

\* destroy_cluster(log_level) is entered after a deployment
CallVmwDestroy ==
    /\ UNCHANGED vmwRest
    /\ vpc \in {"returned", "raised"}
    /\ dpc = "idle"
    /\ dpc' = "running"
    /\ \E files \in SUBSET {"backup", "json"} : mainFiles' = files
    /\ UNCHANGED <<vpc, v_level, vsteps, vfailed, bootstrapNode, cwd, verr, dsteps, derr>>

\* the next statement of destroy_cluster
VmwDestroyStep ==
    /\ UNCHANGED vmwRest
    /\ dpc = "running"
    /\ LET order == DestroySteps(mainFiles)
           step == order[Len(dsteps) + 1]
       IN /\ dsteps' = Append(dsteps, step)
          /\ \E ok \in BOOLEAN :
                IF ok
                THEN /\ dpc' = IF Len(dsteps) + 1 = Len(order) THEN "returned" ELSE "running"
                     /\ cwd' = IF step = "terraform.destroy" THEN "previous_dir"
                               ELSE IF step = "terraform.initialize upgrade"
                               THEN "terraform_data_dir" ELSE cwd
                     /\ bootstrapNode' = IF step = "terraform.destroy" THEN "absent"
                                         ELSE bootstrapNode
                     /\ UNCHANGED derr
                ELSE /\ dpc' = "raised"
                     /\ derr' = DestroyError(step)
                     /\ cwd' = IF step \in {"terraform.initialize upgrade", "terraform.destroy"}
                               THEN "terraform_data_dir" ELSE cwd
                     /\ UNCHANGED bootstrapNode
    /\ UNCHANGED <<vpc, v_level, vsteps, vfailed, verr, mainFiles>>

\* ------------------------------------------------------------- run() of run.py
TestNames == {"t1", "t2"}

\* what yaml.safe_load(suite_stream).get('tests') can be: a list of tests
Suites == UNION {[1..n -> TestNames] : n \in 0..MaxTests}

\* platform.system()
Platforms == {"Linux", "Windows"}

\* run(args): the options are read and Windows is refused before anything else
CallRun ==
    /\ runpc = "idle"
    /\ \E rp \in BOOLEAN, system \in Platforms, key \in BOOLEAN, ts \in Suites :
          /\ key \/ ts = <<>>
          /\ post_to_report_portal' = rp
          /\ has_tests' = key
          /\ suite_tests' = ts
          /\ IF system = "Windows"
                THEN /\ runpc' = "returned"
                     /\ run_rc' = 1
                ELSE /\ runpc' = "launch"
                     /\ run_rc' = run_rc
    /\ UNCHANGED <<launch, executed, tcs, run_err>>
    /\ UNCHANGED runRest

\* if post_to_report_portal: create_report_portal_session(), start_launch(...)
RunStartLaunch ==
    /\ runpc = "launch"
    /\ launch' = IF post_to_report_portal THEN "started" ELSE launch
    /\ runpc' = "loop"
    /\ UNCHANGED <<has_tests, suite_tests, post_to_report_portal, executed, tcs,
                   run_rc, run_err>>
    /\ UNCHANGED runRest

\* tests = suite.get('tests') is None without the key, and "for test in tests"
\* raises TypeError; nothing around the loop catches it
RunNoTests ==
    /\ runpc = "loop"
    /\ ~has_tests
    /\ runpc' = "raised"
    /\ run_err' = "TypeError"
    /\ UNCHANGED <<has_tests, suite_tests, post_to_report_portal, launch, executed,
                   tcs, run_rc>>
    /\ UNCHANGED runRest

\* one iteration of the loop: TestCase(...), tc.execute(), tcs.append(tc),
\* break on tc.abort_on_fail; the loop ends with the last test
RunTest ==
    /\ runpc = "loop"
    /\ has_tests
    /\ Len(tcs) < Len(suite_tests)
    /\ \E abort_on_fail \in BOOLEAN :
          LET test == suite_tests[Len(tcs) + 1]
          IN  /\ executed' = Append(executed, test)
              /\ tcs' = Append(tcs, [test |-> test, abort_on_fail |-> abort_on_fail])
              /\ runpc' = IF abort_on_fail \/ Len(tcs) + 1 = Len(suite_tests)
                             THEN "finish" ELSE "loop"
    /\ UNCHANGED <<has_tests, suite_tests, post_to_report_portal, launch, run_rc,
                   run_err>>
    /\ UNCHANGED runRest

\* a suite with an empty list of tests skips the loop
RunSkipLoop ==
    /\ runpc = "loop"
    /\ has_tests
    /\ suite_tests = <<>>
    /\ runpc' = "finish"
    /\ UNCHANGED <<has_tests, suite_tests, post_to_report_portal, launch, executed,
                   tcs, run_rc, run_err>>
    /\ UNCHANGED runRest

\* close_and_remove_filehandlers(); if post_to_report_portal: finish_launch(),
\* terminate(); print_results(tcs); return jenkins_rc
RunFinish ==
    /\ runpc = "finish"
    /\ launch' = IF post_to_report_portal THEN "finished" ELSE launch
    /\ runpc' = "returned"
    /\ run_rc' = 0
    /\ UNCHANGED <<has_tests, suite_tests, post_to_report_portal, executed, tcs,
                   run_err>>
    /\ UNCHANGED runRest

\* ------------------------------------------------- test_ceph_manager_stopped
target_label == "CephMgrIsAbsent"

\* seconds slept per iteration of the wait
ALERT_POLL == 5

AlertRecords ==
    [alertname : {target_label, "CephMonQuorumAtRisk"},
     state : {"pending", "firing"},
     severity_level : {"warning", "error"}]

\* the alert lists of at most n alerts
AlertLists(n) == UNION {[1..k -> AlertRecords] : k \in 0..n}

\* [alert for alert in list if alert.get('labels').get('alertname') == target_label]
TargetAlerts(list) == SelectSeq(list, LAMBDA alert : alert.alertname = target_label)

\* what prometheus.get('alerts', ...) can return
Responses ==
    {[ok |-> FALSE, alerts |-> <<>>]}
        \cup {[ok |-> TRUE, alerts |-> l] : l \in AlertLists(MaxAlerts)}

NoResponse == [ok |-> FALSE, alerts |-> <<>>]

\* the asserts on the alerts of the measurement
MeasuredAsExpected(found) ==
    /\ Len(found) = 2
    /\ found[1].severity_level = "warning"
    /\ found[1].state = "pending"
    /\ found[2].severity_level = "warning"
    /\ found[2].state = "firing"

\* the list the comprehension inside the loop iterates over
LoopSource(alertsVar, response) == alertsVar

\* the test up to "if time_sleep > 0"
CallAlertTest ==
    /\ apc = "idle"
    /\ \E measured \in AlertLists(MaxAlerts + 1), ts \in (0 - 1)..MaxSleep :
          /\ alerts' = measured
          /\ target_alerts' = TargetAlerts(measured)
          /\ IF MeasuredAsExpected(TargetAlerts(measured))
                THEN /\ time_sleep' = ts
                     /\ time_sleep0' = ts
                     /\ apc' = IF ts > 0 THEN "loop" ELSE "fetch"
                     /\ aerr' = aerr
                ELSE /\ apc' = "failed"
                     /\ aerr' = "AssertionError"
                     /\ UNCHANGED <<time_sleep, time_sleep0>>
    /\ UNCHANGED <<alerts_response, evaluated, iterations>>
    /\ UNCHANGED alertRest

\* one iteration of the while loop up to the break or the sleep
AlertIterate ==
    /\ apc = "loop"
    /\ time_sleep > 0
    /\ \E response \in Responses :
          /\ alerts_response' = response
          /\ iterations' = iterations + 1
          /\ IF ~response.ok
                THEN /\ apc' = "failed"
                     /\ aerr' = "AssertionError"
                     /\ UNCHANGED <<evaluated, target_alerts>>
                ELSE /\ evaluated' = LoopSource(alerts, response)
                     /\ target_alerts' = TargetAlerts(LoopSource(alerts, response))
                     /\ apc' = IF Len(TargetAlerts(LoopSource(alerts, response))) = 0
                                  THEN "final" ELSE "sleep"
                     /\ aerr' = aerr
    /\ UNCHANGED <<alerts, time_sleep, time_sleep0>>
    /\ UNCHANGED alertRest

\* time.sleep(5); time_sleep -= 5; the loop condition
AlertSleep ==
    /\ apc = "sleep"
    /\ time_sleep' = time_sleep - ALERT_POLL
    /\ apc' = IF time_sleep - ALERT_POLL > 0 THEN "loop" ELSE "final"
    /\ UNCHANGED <<alerts, time_sleep0, alerts_response, evaluated, target_alerts,
                   iterations, aerr>>
    /\ UNCHANGED alertRest

\* the else branch: one request without waiting
AlertFetch ==
    /\ apc = "fetch"
    /\ \E response \in Responses : alerts_response' = response
    /\ apc' = "final"
    /\ UNCHANGED <<alerts, time_sleep, time_sleep0, evaluated, target_alerts,
                   iterations, aerr>>
    /\ UNCHANGED alertRest

\* the asserts after the wait, on the alerts of the last response
AlertFinal ==
    /\ apc = "final"
    /\ IF ~alerts_response.ok
          THEN /\ apc' = "failed"
               /\ aerr' = "AssertionError"
               /\ UNCHANGED <<alerts, target_alerts>>
          ELSE /\ alerts' = alerts_response.alerts
               /\ target_alerts' = TargetAlerts(alerts_response.alerts)
               /\ apc' = IF Len(TargetAlerts(alerts_response.alerts)) = 0
                            THEN "passed" ELSE "failed"
               /\ aerr' = IF Len(TargetAlerts(alerts_response.alerts)) = 0
                             THEN aerr ELSE "AssertionError"
    /\ UNCHANGED <<time_sleep, time_sleep0, alerts_response, evaluated, iterations>>
    /\ UNCHANGED alertRest

\* --------------------- PASTest.write_result_to_file, check_tests_results
\* text is a sequence of tokens; "\n" and "," are tokens of their own
ResLinks == {<<"http-a">>, <<"http-b", "id">>}

\* what open(self.results_file, "a+") and the write can do: "a+" creates a
\* missing file and lines 485-486 made the directory, so FileNotFoundError
\* is left to OSError
WriteOutcomes == {"ok", "OSError"}

\* the index of the first "\n" of text, 0 without one
RECURSIVE FirstNewline(_, _)
FirstNewline(text, i) ==
    IF i > Len(text) THEN 0
    ELSE IF text[i] = "\n" THEN i
    ELSE FirstNewline(text, i + 1)

\* text.split("\n")
RECURSIVE Split(_)
Split(text) ==
    LET n == FirstNewline(text, 1)
    IN  IF n = 0 THEN <<text>>
        ELSE <<SubSeq(text, 1, n - 1)>> \o Split(SubSeq(text, n + 1, Len(text)))

PopNothing(data) == data

\* data.pop()
PopLast(data) == SubSeq(data, 1, Len(data) - 1)

\* ",".join(es_links)
RECURSIVE JoinComma(_)
JoinComma(es_links) ==
    IF es_links = <<>> THEN <<>>
    ELSE IF Len(es_links) = 1 THEN es_links[1]
    ELSE es_links[1] \o <<",">> \o JoinComma(Tail(es_links))

\* write_result_to_file(res_link): the line is appended; an OSError is logged
\* and the call returns
WriteResult ==
    /\ respc \in {"idle", "written"}
    /\ Len(links) < MaxLinks
    /\ \E res_link \in ResLinks, outcome \in WriteOutcomes :
          /\ links' = Append(links, res_link)
          /\ IF outcome = "ok"
                THEN /\ file_exists' = TRUE
                     /\ file_text' = file_text \o res_link \o <<"\n">>
                     /\ written' = Append(written, res_link)
                ELSE UNCHANGED <<file_exists, file_text, written>>
    /\ respc' = "written"
    /\ UNCHANGED <<number_of_tests, es_link, res_err>>
    /\ UNCHANGED resRest

\* check_tests_results(): an OSError of open() is logged and raised again
CheckResults ==
    /\ respc \in {"idle", "written"}
    /\ \E n \in 0..MaxLinks :
          /\ number_of_tests' = n
          /\ IF ~file_exists
                THEN /\ respc' = "raised"
                     /\ res_err' = "OSError"
                     /\ es_link' = es_link
                ELSE LET data == PopLast(Split(file_text))
                     IN  IF Len(data) # n
                            THEN /\ respc' = "raised"
                                 /\ res_err' = "BenchmarkTestFailed"
                                 /\ es_link' = es_link
                            ELSE /\ respc' = "returned"
                                 /\ res_err' = res_err
                                 /\ es_link' = JoinComma(data)
    /\ UNCHANGED <<file_exists, file_text, links, written>>
    /\ UNCHANGED resRest

\* ------------------------------------------------------------ specification
InitNode ==
    /\ listed = [n \in Nodes |-> TRUE]
    /\ ready = [n \in Nodes |-> TRUE]
    /\ unsched = [n \in Nodes |-> FALSE]
    /\ op = "none"
    /\ wpc = "idle"
    /\ node_names = <<>>
    /\ status = NODE_READY
    /\ timeout = 0
    /\ nodes_not_in_state = <<>>
    /\ elapsed = 0
    /\ werr = "none"
    /\ reported = <<>>
    /\ described = <<>>
    /\ timedOut = FALSE
    /\ givenNames = FALSE
    /\ bootSnapshot = {}
    /\ observed = {}
    /\ emptySeen = FALSE
    /\ strayRead = FALSE
    /\ rpc = "idle"
    /\ batch = <<>>
    /\ rerr = "none"
    /\ drained = {}
    /\ drainTimedOut = FALSE
    /\ cephStatus = FALSE
    /\ deleted = {}
    /\ phaseErr = "none"
    /\ trace = <<>>
    /\ upc = "idle"
    /\ initial_nodes = {}
    /\ num_nodes = 0
    /\ mark_for_ocs_label = TRUE
    /\ up_elapsed = 0
    /\ new_spun_nodes = {}
    /\ selinux = {}
    /\ labeled = {}
    /\ uerr = "none"
    /\ requests = <<>>
    /\ npc = "idle"
    /\ net_names = <<>>
    /\ net_wait = FALSE
    /\ attempted = <<>>
    /\ swallowed = {}
    /\ nerr = "none"

\* PASTest.setup
InitWl ==
    /\ wlpc = "setup"
    /\ client_pod = "None"
    /\ wl_timeout = 0
    /\ wl_sleep = 0
    /\ Finished = 0
    /\ restarts = 0
    /\ total_time = 0
    /\ fname = ""
    /\ pod_status = ""
    /\ wlerr = "none"
    /\ test_logs = "none"
    /\ start_elapsed = 0
    /\ startPod = "None"
    /\ seen = <<>>
    /\ counts = <<>>
    /\ phasesSeen = <<>>
    /\ method = "none"
    /\ probes = 0
    /\ sleeps = 0
    /\ got = ""
    /\ pickedFirst = TRUE

\* the three test-side programs before they are entered
InitPool ==
    /\ ppc = "idle"
    /\ bulk_size = 0
    /\ submitted = 0
    /\ started = 0
    /\ finished = {}
    /\ raisedTasks = {}
    /\ threads = 0
    /\ peak = 0
    /\ perr = "none"

InitHealth ==
    /\ hpc = "idle"
    /\ mtries = 0
    /\ mdelay = 0
    /\ calls = 0
    /\ hsleeps = 0
    /\ delays = {}
    /\ lastHealth = NoHealth
    /\ herr = "none"

InitFixture ==
    /\ fpc = "idle"
    /\ deploy = "None"
    /\ teardown = "None"
    /\ cluster_up = FALSE
    /\ seenRunning = "unread"
    /\ finalizers = <<>>
    /\ steps = <<>>
    /\ asserted = FALSE
    /\ ferr = "none"
    /\ terr = "none"
    /\ tderr = "none"

InitIt ==
    /\ ipc = "idle"
    /\ it_initial = {}
    /\ replica_read = 0
    /\ replica_set = 0
    /\ it_after = {}
    /\ it_labeled = {}
    /\ it_returned = 0
    /\ ierr = "none"

InitCloud ==
    /\ cpc = "idle"
    /\ log_cli_level = "DEBUG"
    /\ errText = <<>>
    /\ gathered = FALSE
    /\ logged = "none"
    /\ tested = FALSE
    /\ cerr = "none"

InitVmw ==
    /\ vpc = "idle"
    /\ v_level = "DEBUG"
    /\ vsteps = <<>>
    /\ vfailed = {}
    /\ bootstrapNode = "absent"
    /\ cwd = "previous_dir"
    /\ verr = "none"
    /\ dpc = "idle"
    /\ mainFiles = {}
    /\ dsteps = <<>>
    /\ derr = "none"

InitRun ==
    /\ runpc = "idle"
    /\ has_tests = TRUE
    /\ suite_tests = <<>>
    /\ post_to_report_portal = FALSE
    /\ launch = "none"
    /\ executed = <<>>
    /\ tcs = <<>>
    /\ run_rc = -1
    /\ run_err = "none"

InitAlert ==
    /\ apc = "idle"
    /\ alerts = <<>>
    /\ time_sleep = 0
    /\ time_sleep0 = 0
    /\ alerts_response = NoResponse
    /\ evaluated = <<>>
    /\ target_alerts = <<>>
    /\ iterations = 0
    /\ aerr = "none"

InitRes ==
    /\ respc = "idle"
    /\ file_exists = FALSE
    /\ file_text = <<>>
    /\ links = <<>>
    /\ written = <<>>
    /\ number_of_tests = 0
    /\ es_link = <<>>
    /\ res_err = "none"

Init ==
    /\ InitNode /\ InitWl /\ InitPool /\ InitHealth /\ InitFixture
    /\ InitIt /\ InitCloud /\ InitVmw /\ InitRun /\ InitAlert /\ InitRes

Next ==
    \/ CallWait
    \/ WaitBootstrap
    \/ WaitPoll
    \/ WaitSleep
    \/ CallRemove
    \/ Cordon
    \/ UnscheduleReturn
    \/ UnscheduleRaise
    \/ Drain
    \/ Capture
    \/ Delete
    \/ NodeFlap
    \/ ListingChange

Spec == Init /\ [][Next]_vars

NextWl ==
    \/ CallDeploy
    \/ DeployProbe
    \/ CallWaitForWl
    \/ WlCycle
    \/ WlExit

SpecWl == Init /\ [][NextWl]_vars

NextUpi ==
    \/ CallUpi
    \/ UpiPoll
    \/ UpiSleep
    \/ UpiSnapshot
    \/ UpiCallWait
    \/ WaitBootstrap
    \/ WaitPoll
    \/ UpiWaitSleep
    \/ UpiWaitRaise
    \/ UpiLabel
    \/ NodeFlap
    \/ ListingChange

SpecUpi == Init /\ [][NextUpi]_vars

NextNet ==
    \/ CallNetFail
    \/ NetDown
    \/ NetAfterLoop
    \/ WaitBootstrap
    \/ WaitPoll
    \/ NetWaitSleep
    \/ NetWaitEnd
    \/ NodeFlap
    \/ ListingChange

SpecNet == Init /\ [][NextNet]_vars

NextPool ==
    \/ CallBulk
    \/ Submit
    \/ Shutdown
    \/ TaskStart
    \/ TaskFinish
    \/ Joined
    \/ Measure

SpecPool == Init /\ [][NextPool]_vars

NextHealth ==
    \/ CallHealth
    \/ HealthAttempt
    \/ HealthSleep

SpecHealth == Init /\ [][NextHealth]_vars

NextFixture ==
    \/ SessionStart
    \/ FixtureEnter
    \/ DeployStage
    \/ TestDeployment
    \/ SessionFinish
    \/ ClusterOutage

SpecFixture == Init /\ [][NextFixture]_vars

NextIt ==
    \/ CallLabelIt
    \/ ItWait
    \/ ItLabel
    \/ ListingChange

SpecIt == Init /\ [][NextIt]_vars

NextCloud ==
    \/ CallCloudDeploy
    \/ CloudInstall
    \/ CloudExcept
    \/ CloudGather
    \/ CloudReraise
    \/ CloudTest

SpecCloud == Init /\ [][NextCloud]_vars

NextVmw ==
    \/ CallVmwDeploy
    \/ VmwStep
    \/ CallVmwDestroy
    \/ VmwDestroyStep

SpecVmw == Init /\ [][NextVmw]_vars

NextRun ==
    \/ CallRun
    \/ RunStartLaunch
    \/ RunNoTests
    \/ RunTest
    \/ RunSkipLoop
    \/ RunFinish

SpecRun == Init /\ [][NextRun]_vars

NextAlert ==
    \/ CallAlertTest
    \/ AlertIterate
    \/ AlertSleep
    \/ AlertFetch
    \/ AlertFinal

SpecAlert == Init /\ [][NextAlert]_vars

NextRes ==
    \/ WriteResult
    \/ CheckResults

SpecRes == Init /\ [][NextRes]_vars

\* ------------------------------------------------------------------ claims
Issued(c) == \E i \in DOMAIN trace : trace[i] = c

Before(a, i) == \E j \in 1..(i - 1) : trace[j] = a

\* C1: in remove_nodes the delete command is issued only after the drain
\* command returned without error, and the drain command only after the cordon
\* command succeeded and wait_for_nodes_status then saw every node of the batch
\* in 'Ready,SchedulingDisabled'.
C1_RemoveOrdering ==
    /\ \A i \in DOMAIN trace :
          trace[i] = "delete" => Before("drain:ok", i)
    /\ \A i \in DOMAIN trace :
          trace[i] = "drain" =>
             \E k \in 1..(i - 1) : trace[k] = "wait:ok" /\ Before("cordon:ok", k)
    /\ \A i \in DOMAIN trace :
          trace[i] = "wait:ok" =>
             /\ status = NODE_READY_SCHEDULING_DISABLED
             /\ SeqToSet(batch) \subseteq observed

C1_Witness ==
    /\ rpc = "done"
    /\ Len(batch) = 2
    /\ trace = <<"cordon", "cordon:ok", "wait:ok", "drain", "drain:ok",
                 "delete", "delete:ok">>

\* C2: after a drain timeout the Ceph status capture is attempted before
\* anything is propagated, the timeout itself reaches the caller only with a
\* captured snapshot, and no node is deleted unless the drain command completed.
C2_DrainTimeoutCapture ==
    /\ (drainTimedOut /\ rpc = "raised") =>
          \E i \in DOMAIN trace : trace[i] = "ceph status" /\ Before("drain", i)
    /\ (drainTimedOut /\ rpc = "raised" /\ rerr = "TimeoutExpired") => cephStatus
    /\ \A n \in deleted : n \in drained /\ Issued("drain:ok")
    /\ Issued("delete") => drained = SeqToSet(batch)

C2_Witness ==
    /\ rpc = "raised"
    /\ drainTimedOut
    /\ rerr = "TimeoutExpired"
    /\ cephStatus
    /\ deleted = {}

\* C3 (as claimed): when a phase of remove_nodes fails no later phase runs and
\* the caller receives the error of the phase that failed, also when the
\* health capture after a drain timeout cannot be performed.
C3_OriginatingError ==
    /\ (~Issued("cordon:ok") \/ ~Issued("wait:ok")) => ~Issued("drain")
    /\ ~Issued("drain:ok") => ~Issued("delete")
    /\ rpc = "raised" => rerr = phaseErr

\* C4: when remove_nodes fails after the cordon command succeeded, every node
\* of the batch is still unschedulable: nothing is rolled back.
C4_NoRollback ==
    (rpc = "raised" /\ Issued("cordon:ok")) =>
        \A n \in SeqToSet(batch) : unsched[n]

C4_Witness ==
    /\ rpc = "raised"
    /\ Issued("drain")
    /\ Len(batch) = 2
    /\ \A n \in SeqToSet(batch) : unsched[n]

\* C5 (as claimed): after a drain timeout on one node the other nodes of the
\* batch are still drained and deleted.
C5_OthersStillRemoved ==
    (rpc = "raised" /\ drainTimedOut) =>
        \E n \in SeqToSet(batch) :
            SeqToSet(batch) \ {n} \subseteq (drained \cap deleted)

\* C5 (amended): a drain timeout ends remove_nodes for the whole batch: no node
\* of the batch is deleted, not even one whose eviction had finished.
C5_TimeoutAbortsBatch ==
    drainTimedOut =>
        /\ rpc \in {"capture", "raised"}
        /\ deleted = {}
        /\ ~Issued("delete")

C5_Witness ==
    /\ rpc = "raised"
    /\ drainTimedOut
    /\ Len(batch) = 2
    /\ drained # {}
    /\ \A n \in SeqToSet(batch) : listed[n]

PendingStep ==
    wpc \in {"poll", "sleep"} =>
        /\ SeqToSet(nodes_not_in_state') \subseteq SeqToSet(nodes_not_in_state)
        /\ Len(nodes_not_in_state') <= Len(nodes_not_in_state)
        /\ observed \subseteq observed'
        /\ observed' \cap SeqToSet(nodes_not_in_state') = {}

\* C6: while a wait_for_nodes_status call polls, the pending list only loses
\* names, and a name observed in the target status is never pending again.
C6_PendingMonotone == [][PendingStep]_vars

C6_Witness ==
    /\ wpc \in {"poll", "sleep"}
    /\ \E n \in observed :
          /\ listed[n]
          /\ get_resource_status(n) # status
          /\ n \notin SeqToSet(nodes_not_in_state)

\* C7 (as claimed): a timed-out wait fails with ResourceWrongStatusException
\* whose names and describe-dumps are exactly the still-pending nodes.
C7_ReportsPending ==
    (wpc = "raised" /\ timedOut) =>
        /\ werr = "ResourceWrongStatusException"
        /\ SeqToSet(reported) = SeqToSet(nodes_not_in_state)
        /\ SeqToSet(described) \subseteq SeqToSet(nodes_not_in_state)

\* C8: a call without names resolves them to the node listing of its first
\* non-empty sample before any status is polled, and the nodes it waits on and
\* converges stay within that snapshot.
C8_BootstrapSnapshot ==
    ~givenNames =>
        /\ wpc = "bootstrap" => (observed = {} /\ nodes_not_in_state = <<>>)
        /\ wpc \in {"poll", "sleep", "returned"} =>
              /\ bootSnapshot # {}
              /\ SeqToSet(node_names) = bootSnapshot
              /\ SeqToSet(nodes_not_in_state) \cup observed \subseteq bootSnapshot
        /\ wpc = "returned" => observed = bootSnapshot

C8_Witness ==
    /\ op = "wait"
    /\ ~givenNames
    /\ wpc = "returned"
    /\ \E n \in Nodes : listed[n] /\ n \notin bootSnapshot

\* C9 (as claimed): while the names are being resolved an empty node listing
\* never fails the call; only the expiry of the bootstrap budget does.
C9_EmptyListingTolerated ==
    (op = "wait" /\ ~givenNames /\ wpc = "raised" /\ bootSnapshot = {}) =>
        /\ timedOut
        /\ elapsed >= BOOTSTRAP_TIMEOUT

\* a poll cycle that selected a runner pod adds one to restarts exactly when
\* the selected name differs from the tracked one
RestartStep ==
    (wlpc = "loop" /\ fname' # "") =>
        restarts' = restarts + (IF fname' # client_pod THEN 1 ELSE 0)

\* restarts after each recorded cycle: one more than before exactly when the
\* selected name differs from the name selected (or tracked) just before it
CountsFollowChanges ==
    /\ Len(counts) = Len(seen)
    /\ \A i \in DOMAIN seen :
          counts[i] = (IF i = 1 THEN 0 ELSE counts[i - 1])
                      + (IF seen[i] # (IF i = 1 THEN startPod ELSE seen[i - 1])
                         THEN 1 ELSE 0)
    /\ (/\ startPod = "None"
        /\ seen = <<"bench-client-A", "bench-client-A", "bench-client-B",
                    "bench-client-B", "bench-client-A">>)
          => counts = <<1, 1, 2, 2, 3>>

InWait == method = "wait"

\* the step is one poll cycle of wait_for_wl_to_finish
CycleStep == InWait /\ probes' = probes + 1

\* the cycle selected a runner pod that is not the tracked one
RestartCycle == CycleStep /\ fname' # "" /\ fname' # client_pod

FailedTooMuch == wlpc = "raised" /\ wlerr = "Exception: Too much restarts"

CapStep ==
    /\ (CycleStep /\ restarts' > MAX_RESTARTS)
          => /\ restarts <= MAX_RESTARTS
             /\ wlpc' = "raised" /\ wlerr' = "Exception: Too much restarts"
             /\ Finished' = 0 /\ test_logs' = test_logs /\ sleeps' = sleeps
    /\ (CycleStep /\ restarts' <= MAX_RESTARTS)
          => wlerr' # "Exception: Too much restarts"

CapState ==
    /\ (InWait /\ wlerr = "Exception: Too much restarts")
          => wlpc = "raised" /\ restarts = MAX_RESTARTS + 1
    /\ (InWait /\ wlpc # "raised") => restarts <= MAX_RESTARTS

\* C11 (amended): the wait fails with 'Too much restarts' in the very cycle
\* in which the restart counter first exceeds the fixed cap of 3, whatever
\* the remaining budget and the phase of the new pod (Succeeded included),
\* and never fails for restarts while the counter is at most 3; the cap is
\* not a parameter of the call.
C11_RestartCap == [][CapStep]_vars /\ []CapState

\* the fourth identity change shows a Succeeded pod with budget left
C11_Witness ==
    /\ FailedTooMuch /\ InWait
    /\ pod_status = "Succeeded" /\ total_time > 0 /\ test_logs = "none"

\* C11 (as stated): for a cap of 2 as for the default cap of 3, the wait has
\* failed with 'Too much restarts' as soon as the counter exceeds the cap.
C11_AnyCap ==
    \A cap \in {2, MAX_RESTARTS} : (InWait /\ restarts > cap) => FailedTooMuch

\* the cycle slept: it was not the last one of the call
Slept == sleeps' = sleeps + 1

BudgetStep ==
    /\ RestartCycle
          => total_time' = IF Slept THEN wl_timeout - wl_sleep ELSE wl_timeout
    /\ (CycleStep /\ ~RestartCycle)
          => total_time' = IF Slept THEN total_time - wl_sleep ELSE total_time
    /\ (InWait /\ ~CycleStep) => total_time' = total_time

BudgetState == InWait => total_time <= wl_timeout

\* C12: a restart resets the remaining budget to exactly the full timeout,
\* whatever was left (the sleep of that same cycle is then charged to it);
\* the remaining budget never exceeds the timeout, and a cycle without a
\* restart leaves it unchanged when it ends the call and lowers it by exactly
\* the poll interval otherwise.
C12_BudgetReset == [][BudgetStep]_vars /\ []BudgetState

\* two sleeps were charged, then another pod appeared
C12_Witness ==
    /\ InWait /\ wlpc = "loop"
    /\ startPod = "bench-client-A"
    /\ seen = <<"bench-client-A", "bench-client-A", "bench-client-B">>
    /\ restarts = 1 /\ sleeps = 3
    /\ total_time = wl_timeout - wl_sleep

NoClientStep ==
    /\ (CycleStep /\ fname' = "")
          => /\ wlpc' = "raised" /\ wlerr' = "Exception: Failed to run"
             /\ sleeps' = sleeps /\ total_time' = total_time
             /\ restarts' = restarts /\ test_logs' = test_logs
    /\ (InWait /\ wlpc = "raised") => probes' = probes

\* C13: a cycle whose listing has no pod with 'client' in its name fails the
\* call in that cycle, without a sleep and without another probe, whatever
\* the remaining budget and the restart count.
C13_NoClientFails == [][NoClientStep]_vars

\* the runner pod disappears after a restart, with budget left
C13_Witness ==
    /\ InWait /\ wlpc = "raised" /\ wlerr = "Exception: Failed to run"
    /\ fname = "" /\ restarts >= 2 /\ probes >= 3 /\ total_time > 0

BadPhase(ph) == ph \notin {STATUS_RUNNING, STATUS_PENDING, "Succeeded"}

WrongStatusStep ==
    (CycleStep /\ fname' # "" /\ BadPhase(pod_status') /\ restarts' <= MAX_RESTARTS)
       => /\ wlpc' = "raised" /\ wlerr' = "ResourceWrongStatusException"
          /\ got' = pod_status'
          /\ sleeps' = sleeps
          /\ total_time' \in {total_time, wl_timeout}

\* C14 (amended): a cycle that finds the runner pod in a phase other than
\* Running, Pending or Succeeded fails the call in that cycle with
\* ResourceWrongStatusException carrying that phase, without a sleep and
\* without charging the budget, unless that cycle is the restart that takes
\* the counter above 3.
C14_WrongStatus == [][WrongStatusStep]_vars

C14_Witness ==
    /\ InWait /\ wlpc = "raised" /\ wlerr = "ResourceWrongStatusException"
    /\ got = "Unknown" /\ pod_status = "Unknown" /\ probes >= 2 /\ restarts = MAX_RESTARTS

\* C14 (as stated): whenever the runner pod was found in a phase other than
\* Running, Pending or Succeeded, the call has failed with
\* ResourceWrongStatusException carrying that phase.
C14_AnyBadPhase ==
    (InWait /\ fname # "" /\ BadPhase(pod_status))
       => wlpc = "raised" /\ wlerr = "ResourceWrongStatusException" /\ got = pod_status

LogsStep ==
    /\ test_logs' # test_logs
          => CycleStep /\ pod_status' = "Succeeded" /\ test_logs' = fname'
    /\ (InWait /\ Finished = 1 /\ wlpc = "loop")
          => UNCHANGED vars \/ (wlpc' = "returned" /\ probes' = probes)

LogsState ==
    /\ test_logs # "none"
          => /\ InWait /\ pod_status = "Succeeded" /\ Finished = 1
             /\ test_logs = client_pod
             /\ wlerr = "none" /\ wlpc \in {"loop", "returned"}
    /\ (InWait /\ probes > 0 /\ fname # "") => client_pod = fname
    /\ wlpc = "raised" => test_logs = "none"
    /\ (InWait /\ wlpc = "returned") => test_logs # "none"

\* C15: logs are fetched only in a cycle that observes Succeeded, from the
\* pod tracked as client_pod, which after every cycle that selected a runner
\* pod is that pod; the call then returns without another probe, and no
\* failing outcome has fetched logs.
C15_Logs == [][LogsStep]_vars /\ []LogsState

\* the pod seen Succeeded is not the one tracked when the call began
C15_Witness ==
    /\ InWait /\ wlpc = "returned"
    /\ startPod = "bench-client-A" /\ test_logs = "bench-client-B" /\ probes = 1

\* C16: with timeout 60 and poll interval 5, a runner pod that stays the same
\* and is seen Pending, Pending, Running, Succeeded makes the call fetch its
\* logs after three sleeps, with 45 of the budget left, and raise nothing.
C16_Scenario ==
    (InWait /\ wl_timeout = 60 /\ wl_sleep = 5 /\ phasesSeen = PhaseRun)
       => /\ Finished = 1 /\ test_logs = client_pod
          /\ probes = 4 /\ sleeps = 3
          /\ total_time = 45
          /\ wlerr = "none" /\ wlpc \in {"loop", "returned"}

C16_Witness ==
    /\ InWait /\ wl_timeout = 60 /\ wl_sleep = 5 /\ phasesSeen = PhaseRun
    /\ startPod = client_pod /\ restarts = 0
    /\ wlpc = "returned"

TimeoutStep ==
    /\ (InWait /\ wlpc = "loop" /\ Finished = 0 /\ total_time <= 0)
          => /\ probes' = probes
             /\ UNCHANGED vars \/ (wlpc' = "raised" /\ wlerr' = "TimeoutExpiredError")
    /\ (InWait /\ wlerr' = "TimeoutExpiredError" /\ wlerr # "TimeoutExpiredError")
          => wlpc = "loop" /\ Finished = 0 /\ total_time <= 0

TimeoutState ==
    (InWait /\ wlerr = "TimeoutExpiredError")
       => /\ wlpc = "raised" /\ Finished = 0 /\ total_time <= 0
          /\ pod_status \in {STATUS_RUNNING, STATUS_PENDING}
          /\ test_logs = "none"

\* C17: once the remaining budget is zero or below with no terminal phase
\* seen, the call raises TimeoutExpiredError without another probe, and it
\* raises TimeoutExpiredError in no other situation.
C17_Timeout == [][TimeoutStep]_vars /\ []TimeoutState

\* the budget of the last restart ran out exactly
C17_Witness ==
    /\ InWait /\ wlpc = "raised" /\ wlerr = "TimeoutExpiredError"
    /\ total_time = 0 /\ restarts >= 1

Ceil(a, b) == (a + b - 1) \div b

TerminStep ==
    (InWait /\ wlpc = "loop")
       => \/ UNCHANGED vars
          \/ probes' = probes + 1
          \/ wlpc' \in {"raised", "returned"}

ProbeBound ==
    /\ InWait => probes <= 4 * Ceil(wl_timeout, wl_sleep)
    /\ (InWait /\ wlpc = "loop") => ENABLED (WlCycle \/ WlExit)
    /\ (InWait /\ wlpc \in {"raised", "returned"} /\ wl_timeout <= wl_sleep /\ restarts = 0)
          => probes = 1

\* C18: whatever is observed, the call ends after at most
\* 4 * ceil(timeout / sleep) probe cycles (every step of the loop is a probe
\* cycle or the end of the call, and one of them is always possible); with
\* timeout <= sleep and no restart it makes exactly one probe.
C18_Terminates == [][TerminStep]_vars /\ []ProbeBound

\* the longest call: every budget is used up to its last cycle
C18_Witness ==
    /\ InWait /\ wlpc = "raised" /\ wl_timeout = 60 /\ wl_sleep = 5
    /\ probes = 4 * Ceil(wl_timeout, wl_sleep) - 3

\* ------------------------------------------ claims on add_new_node_and_label_upi

\* the poll over get_worker_nodes is running
InCountPoll == op = "upi" /\ upc \in {"poll", "sleep"}

\* C19: add_new_node_and_label_upi with num_nodes = 0 is a no-op:
\* create_and_attach_nodes_to_cluster is not invoked, the set of new nodes is
\* empty and no node is labeled.
C19_ZeroDeltaNoOp ==
    /\ (InCountPoll /\ num_nodes = 0) => requests = <<>>
    /\ (op = "upi" /\ requests = <<0>>) => new_spun_nodes = {} /\ labeled = {}

CountPollStep ==
    /\ (InCountPoll /\ upc' = "raised")
          => /\ uerr' = "TimeoutExpiredError"
             /\ up_elapsed' = UPI_TIMEOUT
    /\ (InCountPoll /\ upc' = "snapshot")
          => Cardinality(get_worker_nodes) = Cardinality(initial_nodes) + num_nodes

CountPollState ==
    /\ uerr # "ProvisioningError"
    /\ (InCountPoll \/ (op = "upi" /\ uerr = "TimeoutExpiredError"))
          => /\ wpc = "idle" /\ node_names = <<>>
             /\ new_spun_nodes = {} /\ selinux = {} /\ labeled = {}

\* C20 (amended): when the worker count never equals the initial count plus
\* num_nodes in a sample of the 600 s poll (a request for 2 that brings only
\* 1 node), add_new_node_and_label_upi fails with the sampler's
\* TimeoutExpiredError - it raises no ProvisioningError - and neither
\* wait_for_nodes_status nor any labeling is entered; they are entered only
\* after a sample with exactly that count.
C20_CountPollTimeout == [][CountPollStep]_vars /\ []CountPollState

\* 2 nodes were requested and the workers are one more than before
C20_Witness ==
    /\ op = "upi" /\ upc = "raised" /\ uerr = "TimeoutExpiredError"
    /\ num_nodes = 2 /\ requests = <<2>>
    /\ Cardinality(get_worker_nodes) = Cardinality(initial_nodes) + 1

\* C20 (as stated): a request for 2 nodes that ends in the count poll with
\* one worker more than before has failed with ProvisioningError.
C20_ProvisioningError ==
    (/\ op = "upi" /\ upc = "raised" /\ wpc = "idle"
     /\ num_nodes = 2
     /\ Cardinality(get_worker_nodes) = Cardinality(initial_nodes) + 1)
       => uerr = "ProvisioningError"

\* the step that reads nodes_after_exp
SnapshotStep == op = "upi" /\ upc = "snapshot" /\ upc' = "wait"

NewNodesStep ==
    /\ SnapshotStep
          => /\ new_spun_nodes' = get_worker_nodes \ initial_nodes
             /\ new_spun_nodes' \cap initial_nodes = {}
    /\ (op = "upi" /\ ~SnapshotStep) => new_spun_nodes' = new_spun_nodes
    /\ (op = "upi" /\ labeled' # labeled)
          => upc = "waiting" /\ wpc = "returned" /\ mark_for_ocs_label'

NewNodesState ==
    op = "upi"
       => /\ labeled \subseteq new_spun_nodes
          /\ (upc = "returned" /\ mark_for_ocs_label) => labeled = new_spun_nodes
          /\ (upc \in {"returned", "raised"} /\ ~mark_for_ocs_label) => labeled = {}

\* C21: the nodes add_new_node_and_label_upi treats as new are exactly the
\* workers listed after the expansion minus the workers listed before the
\* request, so none of the workers listed before is among them; only they
\* are labeled, all of them when the call returns with mark_for_ocs_label,
\* and none without mark_for_ocs_label.
C21_NewNodes == [][NewNodesStep]_vars /\ []NewNodesState

\* one worker joined and was labeled; a worker that was there before was not
C21_Witness ==
    /\ op = "upi" /\ upc = "returned" /\ mark_for_ocs_label
    /\ labeled # {} /\ labeled = new_spun_nodes
    /\ get_worker_nodes \ labeled # {}

\* C22: every node that has received the label was, earlier in the same call
\* of add_new_node_and_label_upi, among the nodes wait_for_nodes_status
\* waited on and saw Ready.
C22_LabeledWereConfirmed ==
    op = "upi" => labeled \subseteq (SeqToSet(node_names) \cap observed)

\* ------------------------------------------ claims on the TimeoutSampler of
\* wait_for_nodes_status

\* the sampler over get_node_objs(nodes_not_in_state) is being iterated
InStatusPoll == op \in {"wait", "remove"} /\ wpc \in {"poll", "sleep"}

SamplerStep ==
    /\ (InStatusPoll /\ wpc = "poll")
          \* the probe runs at once and its result goes to the loop body
          => /\ elapsed' = elapsed
             /\ ~timedOut'
             /\ wpc' \in {"poll", "sleep", "returned", "raised"}
    /\ (InStatusPoll /\ wpc = "sleep" /\ wpc' # "sleep")
          \* one interval of sleep, then the deadline
          => /\ elapsed' = elapsed + SAMPLE_SLEEP
             /\ timedOut' = (elapsed' >= timeout)
             /\ wpc' = IF elapsed' >= timeout THEN "raised" ELSE "poll"
    /\ (InStatusPoll /\ wpc = "sleep" /\ timeout < SAMPLE_SLEEP)
          => wpc' = "sleep" \/ (wpc' = "raised" /\ timedOut')

SamplerState ==
    /\ (InStatusPoll /\ timeout < SAMPLE_SLEEP) => elapsed = 0
    /\ (op \in {"wait", "remove"} /\ timedOut /\ timeout < SAMPLE_SLEEP)
          => elapsed = SAMPLE_SLEEP
    /\ (op \in {"wait", "remove"} /\ timedOut) => elapsed >= timeout

\* C23: the sampler of wait_for_nodes_status invokes its probe at once,
\* hands the result to the loop, sleeps one interval of 3 s and repeats
\* until the deadline; with a timeout below the interval the first sleep
\* ends in the timeout, so exactly one probe (the one at clock 0) was made.
C23_SamplerCadence == [][SamplerStep]_vars /\ []SamplerState

\* a wait with a timeout below the interval timed out after its first sleep
C23_Witness ==
    /\ op = "wait" /\ wpc = "raised" /\ timedOut
    /\ timeout < SAMPLE_SLEEP
    /\ elapsed = SAMPLE_SLEEP
    /\ nodes_not_in_state # <<>>

\* ------------------------------------------- claims on wait_for_nodes_status

\* a wait_for_nodes_status call is on the stack
WaitEntered == wpc \in {"bootstrap", "poll", "sleep", "returned", "raised"}

\* the names that have left the pending list
Converged == SeqToSet(node_names) \ SeqToSet(nodes_not_in_state)

\* C28: each poll cycle of wait_for_nodes_status reads the status of
\* pending nodes only - never again that of a node removed as converged -
\* and get_node_objs is never called for a poll with an empty pending list.
C28_PendingOnly ==
    /\ ~strayRead
    /\ wpc \in {"poll", "sleep"} => nodes_not_in_state # <<>>

\* a poll ran while one requested node had converged and another had not
C28_Witness ==
    /\ op = "wait" /\ wpc = "sleep" /\ elapsed > 0
    /\ Converged # {} /\ nodes_not_in_state # <<>>
    /\ \E n \in Converged : listed[n]

ConvergeStep ==
    (WaitEntered /\ wpc = "poll")
       => \A n \in SeqToSet(nodes_not_in_state) \ SeqToSet(nodes_not_in_state') :
             listed[n] /\ get_resource_status(n) = status

ConvergeState ==
    /\ WaitEntered => observed = Converged
    /\ wpc = "returned" => nodes_not_in_state = <<>> /\ node_names # <<>>

\* C29: when wait_for_nodes_status returns, every requested node was seen
\* in the target status in a poll cycle of the call (that cycle removed it
\* from the pending list); the nodes need not be in that status together,
\* as a node that left it after being removed stays removed.
C29_EachSeenOnce == [][ConvergeStep]_vars /\ []ConvergeState

\* the call returned although a requested node is not in the target status
C29_Witness ==
    /\ op = "wait" /\ wpc = "returned" /\ givenNames
    /\ \E n \in SeqToSet(node_names) : get_resource_status(n) # status

\* C24: node_network_failure attempts the interface-down command once on
\* every node of node_names, in list order; a TimeoutExpired of one attempt
\* is swallowed and the later attempts are still made, any other error leaves
\* the function at that attempt; with wait it returns True only after every
\* node of node_names was observed NotReady by wait_for_nodes_status
C24_NetFailure ==
    op = "netfail" =>
       /\ Len(attempted) <= Len(net_names)
       /\ attempted = SubSeq(net_names, 1, Len(attempted))
       /\ swallowed \subseteq SeqToSet(attempted)
       /\ npc \in {"waiting", "returned"} => attempted = net_names
       /\ (npc = "raised" /\ wpc = "idle") =>
             /\ nerr = "CommandFailed"
             /\ attempted # <<>>
             /\ attempted[Len(attempted)] \notin swallowed
       /\ (npc = "raised" /\ wpc # "idle") => (net_wait /\ nerr = werr /\ wpc = "raised")
       /\ npc = "returned" =>
             IF net_wait
             THEN /\ wpc = "returned"
                  /\ status = NODE_NOT_READY
                  /\ SeqToSet(net_names) \subseteq observed
             ELSE wpc = "idle"

\* a call with wait returned True although the first of two attempts timed out
C24_Witness ==
    /\ op = "netfail"
    /\ npc = "returned"
    /\ net_wait
    /\ Len(net_names) = 2
    /\ net_names[1] \in swallowed
    /\ attempted = net_names

\* C25: in the bulk PVC creation test never more than 5 submitted tasks are
\* executing at one time, and the provisioning-time measurement is reached
\* only after every submitted task (two per PVC) has finished
C25_BoundedPool ==
    /\ Cardinality(Executing) <= MAX_WORKERS
    /\ peak <= MAX_WORKERS
    /\ (ppc \in {"measure", "passed"} \/ perr = "PerformanceException") =>
          /\ submitted = TaskCount(bulk_size)
          /\ finished = 1..submitted

\* the measurement is reached after six tasks ran on the five workers, five
\* of them at one time, one of them ending with an exception
C25_Witness ==
    /\ ppc = "measure"
    /\ submitted > MAX_WORKERS
    /\ peak = MAX_WORKERS
    /\ raisedTasks # {}

\* C26: ceph_health_check returns True only when the reported health is
\* HEALTH_OK and raises CephHealthException on any other health; under its
\* retry policy CephHealthException and CommandFailed are retried after a
\* constant delay of 30 s, the function body runs at most 20 times and the
\* error of the 20th run propagates; another exception is not retried
C26_HealthRetry ==
    /\ hpc = "returned" => Strip(lastHealth) = <<"HEALTH_OK">>
    /\ (hpc \in {"sleep", "raised"} /\ lastHealth # NoHealth) =>
          /\ herr = "CephHealthException"
          /\ Strip(lastHealth) # <<"HEALTH_OK">>
    /\ calls <= 20
    /\ delays \subseteq {30}
    /\ hpc = "sleep" => herr \in {"CephHealthException", "CommandFailed"}
    /\ hpc \in {"returned", "raised"} => hsleeps = calls - 1
    /\ hpc = "raised" =>
          IF herr \in {"CephHealthException", "CommandFailed"}
          THEN calls = 20
          ELSE herr = "TimeoutExpired"

\* the 20th run found the cluster unhealthy again and its error propagated
C26_Witness ==
    /\ hpc = "raised"
    /\ calls = 20
    /\ hsleeps = 19
    /\ herr = "CephHealthException"
    /\ delays = {30}

\* the fixture completes without failing in this step
FixtureCompletes == fpc \in {"setup", "deploying"} /\ fpc' = "ready"

RunningStep ==
    /\ FixtureCompletes =>
          /\ (deploy = "True" \/ teardown # "True") => cluster_up'
          /\ ~cluster_up' => (teardown = "True" /\ deploy # "True")
    \* the deployment goes on past its access test only with a reachable cluster
    /\ (fpc = "deploying" /\ fpc' = "deploying" /\ Len(steps') = 4) => cluster_up
    /\ (fpc = "ready" /\ fpc' = "tested") =>
          /\ asserted' = (teardown # "True" \/ deploy = "True")
          /\ (asserted' /\ terr' = "none") => cluster_up

RunningState ==
    /\ fpc = "tested" => (asserted <=> (teardown # "True" \/ deploy = "True"))
    /\ fpc \in {"idle", "setup", "deploying", "ready", "failed"} => ~asserted
    /\ terr = "AssertionError" => asserted

\* C27: when deploy is requested or teardown is not requested, the cluster
\* fixture completes without failing only with a running cluster, and
\* test_deployment asserts is_cluster_running exactly when 'not teardown or
\* deploy' holds; only a teardown without deploy goes on with an unreachable
\* cluster
C27_RunningCluster == [][RunningStep]_vars /\ []RunningState

\* test_deployment passed its assertion in a session with deploy and teardown
C27_Witness ==
    /\ fpc = "tested"
    /\ deploy = "True"
    /\ teardown = "True"
    /\ asserted
    /\ terr = "none"
    /\ cluster_up

\* C30: the deployment stages run only when the cluster was not running and
\* deploy is requested; a running cluster skips them; an unreachable cluster
\* with neither deploy nor teardown fails the session; the teardown finalizer
\* is registered if and only if teardown is requested, whatever the branch
C30_FixtureBranches ==
    /\ steps # <<>> => (seenRunning = "no" /\ deploy = "True")
    /\ fpc = "deploying" => (seenRunning = "no" /\ deploy = "True")
    /\ seenRunning = "yes" =>
          /\ steps = <<>>
          /\ ferr = "none"
          /\ fpc \in {"ready", "tested", "finished"}
    /\ (seenRunning = "no" /\ deploy # "True" /\ teardown # "True") =>
          /\ fpc \in {"failed", "finished"}
          /\ ferr = "Failed"
          /\ steps = <<>>
    /\ seenRunning = "unread" => finalizers = <<>>
    /\ seenRunning # "unread" =>
          finalizers = IF teardown = "True" THEN <<"cluster_teardown">> ELSE <<>>

\* the finalizer was registered although the deployment was skipped for a
\* running cluster
C30_Witness ==
    /\ seenRunning = "yes"
    /\ fpc = "ready"
    /\ teardown = "True"
    /\ finalizers = <<"cluster_teardown">>
    /\ steps = <<>>

\* C37: in the bulk PVC test the reload task of a PVC starts only after the
\* wait_for_resource_state task of that PVC has ended, and a wait task that
\* ended with an exception keeps the test from its provisioning-time
\* measurement
C37_ReloadAfterWait ==
    /\ \A i \in 1..started :
          TaskKind(i) = "reload" => (i - 1) \in finished
    /\ (\E i \in raisedTasks : TaskKind(i) = "wait_for_resource_state") =>
          /\ ppc \notin {"measure", "passed"}
          /\ perr # "PerformanceException"

\* a sample of the start wait is taken while deploy_and_wait_for_wl_to_start polls
DeployPollStep ==
    wlpc = "deploying" =>
       /\ wlpc' = "deploying" => (client_pod' = client_pod /\ wlerr' = wlerr)
       /\ wlpc' = "started" => (client_pod' \in ClientNames /\ wlerr' = wlerr)
       /\ wlpc' = "raised" =>
             /\ wlerr' = "TimeoutExpiredError"
             /\ client_pod' = client_pod
             /\ start_elapsed' >= DEPLOY_TIMEOUT

\* the first cycle of wait_for_wl_to_finish that selects a runner pod counts
\* it as a restart exactly when its name differs from the recorded client_pod
FirstCycleStep ==
    (wlpc = "loop" /\ probes = 0 /\ probes' = 1 /\ fname' # "") =>
       /\ client_pod = startPod
       /\ restarts' = (IF fname' # startPod THEN 1 ELSE 0)

DeployState ==
    /\ pickedFirst
    /\ wlpc = "deploying" => client_pod = "None"
    /\ (method = "deploy" /\ wlpc = "raised") => client_pod = "None"
    /\ wlpc = "started" => client_pod \in ClientNames
    /\ (wlpc = "loop" /\ probes = 0) => client_pod = startPod

\* C36: deploy_and_wait_for_wl_to_start keeps polling on a sample without a
\* matching pod, records the first matching name of the first sample that has
\* one and stops there; when its sampler times out the error propagates and
\* client_pod is unchanged; the first runner pod wait_for_wl_to_finish sees is
\* counted as a restart only when its name differs from the recorded one
C36_StartWait == [][DeployPollStep]_vars /\ [][FirstCycleStep]_vars /\ []DeployState

\* the pod recorded by the start wait is seen again in the first cycle of
\* the wait for the end, and no restart is counted
C36_Witness ==
    /\ method = "wait"
    /\ startPod \in ClientNames
    /\ probes = 1
    /\ fname = startPod
    /\ restarts = 0

\* C35: add_new_node_and_label_it sets the replica count to the count read at
\* entry plus one, labels a node only after wait_for_new_node_to_be_ready
\* returned, and labels and returns exactly one node, a worker listed after
\* the scale-up that the snapshot taken before it does not hold
C35_LabelIt ==
    op = "labelit" =>
       /\ replica_set = replica_read + 1
       /\ ipc \in {"waiting", "ready"} => (it_labeled = {} /\ it_returned = 0)
       /\ Cardinality(it_labeled) <= 1
       /\ it_labeled # {} => ipc = "returned"
       /\ ipc = "returned" =>
             /\ it_labeled = {it_returned}
             /\ it_returned \in it_after
             /\ it_returned \notin it_initial
       /\ ipc = "raised" => (it_labeled = {} /\ it_returned = 0)

\* the one node labeled and returned is one of two workers that were not in
\* the snapshot
C35_Witness ==
    /\ op = "labelit"
    /\ ipc = "returned"
    /\ Cardinality(it_after \ it_initial) = 2
    /\ it_labeled = {it_returned}
    /\ replica_set = 2

\* the error text holds the words 'gather bootstrap' next to each other
HasGatherPattern ==
    \E i \in 1..(Len(errText) - 1) :
       errText[i] = "gather" /\ errText[i + 1] = "bootstrap"

\* the installer command failed with CommandFailed
InstallerFailed == cpc \in {"except", "gather", "reraise"} \/ (cpc = "raised" /\ ~tested /\ cerr = "CommandFailed")

\* C31: when the installer command of CloudIPIOCPDeployment.deploy fails with
\* CommandFailed, gather_bootstrap is invoked exactly when the error text
\* contains the gather-bootstrap pattern, an exception of gather_bootstrap is
\* logged and swallowed, the CommandFailed is re-raised in every case, and
\* test_cluster is invoked only after the installer command succeeded
C31_GatherBootstrap ==
    /\ gathered => (InstallerFailed /\ HasGatherPattern)
    /\ (cpc \in {"reraise", "raised"} /\ InstallerFailed) => (gathered <=> HasGatherPattern)
    /\ cpc = "gather" => HasGatherPattern
    /\ logged # "none" => (gathered /\ cpc \in {"reraise", "raised"})
    /\ (cpc = "raised" /\ gathered) => cerr = "CommandFailed"
    /\ tested => (~gathered /\ errText = <<>> /\ cpc \in {"returned", "raised"})
    /\ cpc = "returned" => (tested /\ cerr = "none")
    /\ InstallerFailed => ~tested

\* gather_bootstrap raised, the error was logged, and the CommandFailed of
\* the installer left deploy
C31_Witness ==
    /\ cpc = "raised"
    /\ cerr = "CommandFailed"
    /\ errText = <<"failed", "gather", "bootstrap">>
    /\ gathered
    /\ logged = "TimeoutExpired"
    /\ ~tested

\* the order the claim gives to the steps of deploy
ClaimedOrder ==
    <<"terraform.apply", "wait-for bootstrap-complete",
      "terraform.apply bootstrap_complete", "wait_for_co",
      "configure_storage_for_image_registry", "wait-for install-complete",
      "test_cluster">>

\* the claimed steps among the steps started, in the order they were started
ClaimedStarted == SelectSeq(vsteps, LAMBDA x : x \in SeqToSet(ClaimedOrder))

\* C32: VSPHEREUPI.OCPDeployment.deploy starts its steps in the order
\* terraform apply, wait-for bootstrap-complete, terraform apply removing the
\* bootstrap node, wait for image-registry, patch of the registry storage,
\* wait-for install-complete, test_cluster, each only after the one before
\* succeeded; the bootstrap node is not removed before bootstrap-complete
\* succeeded, and a failing step keeps all later steps from starting
C32_StepOrder ==
    /\ Len(ClaimedStarted) <= Len(ClaimedOrder)
    /\ ClaimedStarted = SubSeq(ClaimedOrder, 1, Len(ClaimedStarted))
    /\ \A i \in DOMAIN vsteps :
          (vsteps[i] \in vfailed /\ vsteps[i] \in SeqToSet(ClaimedOrder)) =>
             (i = Len(vsteps) /\ vpc = "raised")
    /\ (bootstrapNode = "removed" /\ dpc = "idle") =>
          /\ "wait-for bootstrap-complete" \in SeqToSet(vsteps)
          /\ "wait-for bootstrap-complete" \notin vfailed
    /\ vpc = "returned" => (ClaimedStarted = ClaimedOrder /\ verr = "none")
    /\ vpc = "raised" => (vsteps # <<>> /\ vsteps[Len(vsteps)] \in vfailed)

\* wait-for install-complete timed out after the six steps before it
\* succeeded; test_cluster was not started
C32_Witness ==
    /\ vpc = "raised"
    /\ verr = "TimeoutExpired"
    /\ Len(ClaimedStarted) = 6
    /\ bootstrapNode = "removed"
    /\ "test_cluster" \notin SeqToSet(vsteps)

\* ------------------------------------------------------ claims on run()
\* the tests executed so far are a prefix of the suite, in suite order, the
\* results list holds exactly them, and only the last one can have
\* abort_on_fail set
RunOrder ==
    /\ Len(executed) <= Len(suite_tests)
    /\ \A i \in DOMAIN executed : executed[i] = suite_tests[i]
    /\ Len(tcs) = Len(executed)
    /\ \A i \in DOMAIN tcs : tcs[i].test = executed[i]
    /\ \A i \in DOMAIN tcs : tcs[i].abort_on_fail => i = Len(tcs)

\* C33: run() executes the tests in suite order, stops after the first test
\* whose abort_on_fail is set, keeps exactly the executed tests in the results
\* list, and once run() is left the report-portal launch is finished if and
\* only if it was started
C33_RunLaunch ==
    /\ RunOrder
    /\ runpc \in {"returned", "raised"} => launch # "started"

\* ----------------------------------- claims on test_ceph_manager_stopped
\* the loop runs at most ceil(time_sleep / 5) iterations
AlertIterationsBounded == ALERT_POLL * iterations < time_sleep0 + ALERT_POLL

\* the test passes only without a CephMgrIsAbsent alert in the list it
\* evaluated last, which is the one of the last response
AlertPassOnlyCleared ==
    apc = "passed" =>
        /\ alerts = alerts_response.alerts
        /\ TargetAlerts(alerts) = <<>>

\* an iteration that goes on to sleep has evaluated the alerts of the response
\* it fetched and has found a CephMgrIsAbsent alert among them
AlertLoopFresh ==
    apc = "sleep" =>
        /\ evaluated = alerts_response.alerts
        /\ TargetAlerts(alerts_response.alerts) # <<>>

\* C34: every iteration of the alert-clearing wait evaluates the alerts of the
\* response fetched in that iteration and the loop exits as soon as none of
\* them is a CephMgrIsAbsent alert; the loop runs at most ceil(time_sleep / 5)
\* iterations, and the test passes only if the finally evaluated list holds no
\* CephMgrIsAbsent alert
C34_AlertWait ==
    /\ AlertLoopFresh
    /\ AlertIterationsBounded
    /\ AlertPassOnlyCleared

\* ------------------------------------- claims on the results file of PASTest
\* the given links, each followed by a line end
RECURSIVE Lines(_)
Lines(ls) == IF ls = <<>> THEN <<>> ELSE ls[1] \o <<"\n">> \o Lines(Tail(ls))

====
